---- MODULE Spec2Model ----
(***************************************************************************)
(* LxBinMan build cache and loader (src/LxBinMan/lxbinman/autobin.py,      *)
(* manifest.py): autobin.load() for one engine against the files it reads  *)
(* and writes: the source file, the target binary and its ABI sidecar, the *)
(* key-scoped and the plain prebuilt store with their manifests, and the   *)
(* compiler's temporary output file.                                       *)
(***************************************************************************)
EXTENDS Integers, Sequences, FiniteSets, TLC

\* ------------------------------------------------------------------ bounds
\* the source file is saved at most MaxTime times: mtimes range over 0..MaxTime
MaxTime == 1
\* modifications of the stores and the sidecar made from outside the loader
MaxEnvOps == 1

\* ------------------------------------------------------- values and files
Policies == {"prefer_prebuilt", "prefer_cache", "build_only", "prebuilt_only"}

\* the compiler argument of load(); cxx_std and the extra flags keep their defaults
Compilers == {"g++", "clang++"}

\* the texts the source file takes
SourceVersions == {"v1", "v2"}

\* python dicts are functions from string keys; d.get(k, default)
EmptyDict == [k \in {} |-> ""]

Get(d, k, default) == IF k \in DOMAIN d THEN d[k] ELSE default

\* a file that holds a binary (source, compiled module, temporary output)
NoFile == [exists |-> FALSE, bytes |-> "", mtime |-> 0]

File(b, t) == [exists |-> TRUE, bytes |-> b, mtime |-> t]

\* a JSON file (sidecar, manifest): absent, unparsable, or a JSON object
AbsentJson == [kind |-> "absent", data |-> EmptyDict]

MalformedJson == [kind |-> "malformed", data |-> EmptyDict]

JsonFile(d) == [kind |-> "dict", data |-> d]

\* what the compiler writes for a source text
CompileBytes(src, compiler) == "elf(" \o src \o "," \o compiler \o ")"

\* the bytes of an output file the compiler did not finish
PartialBytes == "elf(truncated"

\* bytes written into a store by something else than the loader
ForeignBytes == "elf(foreign)"

\* _sha256_file: hexdigest() is lower-case hex
_sha256_file(bytes) == "sha256(" \o bytes \o ")"

AllBinaryBytes ==
    {CompileBytes(s, c) : s \in SourceVersions, c \in Compilers} \cup {ForeignBytes, PartialBytes}

\* the same digest written in upper case, as a manifest may hold it
UpperHex(h) == "SHA256(" \o h \o ")"

\* str.strip().lower() on the texts the model uses
StripLowerTable ==
    [t \in {UpperHex(_sha256_file(b)) : b \in AllBinaryBytes} \cup {"Linux", " x86_64 "} |->
        IF t = "Linux" THEN "linux"
        ELSE IF t = " x86_64 " THEN "x86_64"
        ELSE CHOOSE h \in {_sha256_file(b) : b \in AllBinaryBytes} : UpperHex(h) = t]

StripLower(s) == IF s \in DOMAIN StripLowerTable THEN StripLowerTable[s] ELSE s

FingerprintKeys == {"python_version", "python_soabi", "system", "machine"}

\* manifest.runtime_info() of the running process
runtime_info ==
    [python_version |-> "3.11", python_soabi |-> "cpython-311-x86_64-linux-gnu",
     system |-> "linux", machine |-> "x86_64"]

\* the file name of the engine's binary: suffix is ".so" with an output_dir,
\* sysconfig's EXT_SUFFIX without
SoName(output_dir) ==
    IF output_dir THEN "cpu.so" ELSE "cpu.cpython-311-x86_64-linux-gnu.so"

\* the same for any engine: f"{engine_name}{suffix}"
so_name_of(engine_name, output_dir) ==
    engine_name \o (IF output_dir THEN ".so" ELSE ".cpython-311-x86_64-linux-gnu.so")

\* ------------------------------------------------------ sidecar, manifest
_read_abi_sidecar(sidecar) == IF sidecar.kind = "dict" THEN sidecar.data ELSE EmptyDict

_is_abi_compatible(sidecar, expected_signature) ==
    LET got == _read_abi_sidecar(sidecar)
    IN  /\ got # EmptyDict
        /\ \A key \in FingerprintKeys : Get(got, key, "") = runtime_info[key]
        /\ "build_signature" \in DOMAIN got
        /\ got["build_signature"] = expected_signature

\* faulty variant: the sidecar is written without the build signature
Mut_write_abi_sidecar_no_signature(build_signature) ==
    JsonFile([k \in FingerprintKeys |-> runtime_info[k]])

_write_abi_sidecar(build_signature) ==
    JsonFile([k \in FingerprintKeys \cup {"build_signature"} |->
                IF k = "build_signature" THEN build_signature ELSE runtime_info[k]])

_build_signature(cpp, compiler) ==
    [source_sha256 |-> _sha256_file(cpp.bytes), compiler |-> compiler, cxx_std |-> "c++17",
     extra_compile_args |-> <<>>, extra_link_args |-> <<>>]

read_manifest(file) == IF file.kind = "dict" THEN file.data ELSE EmptyDict

\* faulty variant: the texts are compared as they are
Mut_is_manifest_compatible_exact(manifest_data) ==
    \/ manifest_data = EmptyDict
    \/ \A key \in FingerprintKeys :
          LET expected == Get(manifest_data, key, "")
          IN  expected = "" \/ expected = runtime_info[key]

is_manifest_compatible(manifest_data) ==
    \/ manifest_data = EmptyDict
    \/ \A key \in FingerprintKeys :
          LET expected == StripLower(Get(manifest_data, key, ""))
          IN  expected = "" \/ expected = StripLower(runtime_info[key])

_manifest_ok(file) ==
    LET manifest == read_manifest(file)
    IN  IF manifest = EmptyDict
        THEN [ok |-> TRUE, manifest |-> EmptyDict]
        ELSE [ok |-> is_manifest_compatible(manifest), manifest |-> manifest]

\* faulty variant: the hash recorded is that of the file name
Mut_upsert_hash_of_name(file, so_name, so_bytes) ==
    LET data == read_manifest(file)
        old == Get(data, "hashes", EmptyDict)
        hashes == [n \in DOMAIN old \cup {so_name} |->
                     IF n = so_name THEN _sha256_file(so_name) ELSE old[n]]
    IN  JsonFile([k \in DOMAIN data \cup FingerprintKeys \cup {"hashes"} |->
                    IF k \in FingerprintKeys THEN runtime_info[k]
                    ELSE IF k = "hashes" THEN hashes ELSE data[k]])

\* faulty variant: the hash table is written anew with the one entry
Mut_upsert_forgets_other_hashes(file, so_name, so_bytes) ==
    LET data == read_manifest(file)
    IN  JsonFile([k \in DOMAIN data \cup FingerprintKeys \cup {"hashes"} |->
                    IF k \in FingerprintKeys THEN runtime_info[k]
                    ELSE IF k = "hashes" THEN (so_name :> _sha256_file(so_bytes))
                    ELSE data[k]])

_upsert_prebuilt_manifest(file, so_name, so_bytes) ==
    LET data == read_manifest(file)
        old == Get(data, "hashes", EmptyDict)
        hashes == [n \in DOMAIN old \cup {so_name} |->
                     IF n = so_name THEN _sha256_file(so_bytes) ELSE old[n]]
    IN  JsonFile([k \in DOMAIN data \cup FingerprintKeys \cup {"hashes"} |->
                    IF k \in FingerprintKeys THEN runtime_info[k]
                    ELSE IF k = "hashes" THEN hashes ELSE data[k]])

\* ---------------------------------------------------------- the file system
\* fs: the files load() reads and writes for the engine
\*   target_so, target_abi              the target binary and its sidecar
\*   prebuilt_key_so, prebuilt_key_abi  <prebuilt_root>/<key>/<engine><suffix>
\*   manifest_key                       <prebuilt_root>/<key>/manifest.json
\*   prebuilt_plain_so, prebuilt_plain_abi, manifest_plain   the same in <prebuilt_root>
\*   tmp_so                             <target_so>.tmp, the compiler's output
\*                                      (its mtime is never read and kept 0)
EmptyFs ==
    [target_so |-> NoFile, target_abi |-> AbsentJson,
     prebuilt_key_so |-> NoFile, prebuilt_key_abi |-> AbsentJson, manifest_key |-> AbsentJson,
     prebuilt_plain_so |-> NoFile, prebuilt_plain_abi |-> AbsentJson,
     manifest_plain |-> AbsentJson,
     tmp_so |-> NoFile]

\* faulty variant: the backup leaves the store's manifest alone
Mut_backup_without_manifest(f, so_name) ==
    [f EXCEPT !.prebuilt_key_so = f.target_so,
              !.prebuilt_key_abi = IF f.target_abi.kind # "absent" THEN f.target_abi ELSE @]

_backup_prebuilt(f, so_name) ==
    [f EXCEPT !.prebuilt_key_so = f.target_so,
              !.prebuilt_key_abi = IF f.target_abi.kind # "absent" THEN f.target_abi ELSE @,
              !.manifest_key = _upsert_prebuilt_manifest(@, so_name, f.target_so.bytes)]

\* how the toolchain behaves in one call: "no_includes": python -m pybind11
\* --includes fails; else how the compiler process ends: "ok", "fail" (non-zero
\* exit), "killed" (the build is interrupted while the compiler runs)
Toolchains == {"ok", "no_includes", "fail", "killed"}

\* faulty variant: the compiler writes to out_so itself
Mut_build_module_in_place(f, cpp, compiler, cc, clock) ==
    IF cc = "no_includes"
    THEN [fs |-> f, outcome |-> "toolchain_unavailable", compiles |-> 0]
    ELSE IF cc = "killed"
    THEN [fs |-> [f EXCEPT !.target_so = File(PartialBytes, clock)],
          outcome |-> "interrupted", compiles |-> 1]
    ELSE IF cc = "fail"
    THEN [fs |-> [f EXCEPT !.target_so = NoFile], outcome |-> "build_failed", compiles |-> 1]
    ELSE [fs |-> [f EXCEPT !.target_so = File(CompileBytes(cpp.bytes, compiler), clock)],
          outcome |-> "ok", compiles |-> 1]

\* _build_module: include detection, the compiler run into tmp_so, the rename
_build_module(f, cpp, compiler, cc, clock) ==
    IF cc = "no_includes"
    THEN [fs |-> f, outcome |-> "toolchain_unavailable", compiles |-> 0]
    ELSE IF cc = "killed"
    THEN [fs |-> [f EXCEPT !.tmp_so = File(PartialBytes, 0)],
          outcome |-> "interrupted", compiles |-> 1]
    ELSE IF cc = "fail"
    THEN [fs |-> [f EXCEPT !.tmp_so = NoFile], outcome |-> "build_failed", compiles |-> 1]
    ELSE [fs |-> [f EXCEPT !.tmp_so = NoFile,
                           !.target_so = File(CompileBytes(cpp.bytes, compiler), clock)],
          outcome |-> "ok", compiles |-> 1]

\* faulty variant: the copy is made without comparing the hash
Mut_copy_unverified(src, cpp, manifest_data, so_name) ==
    IF ~src.exists THEN [outcome |-> "missing", sha_checked |-> FALSE]
    ELSE IF src.mtime < cpp.mtime THEN [outcome |-> "stale", sha_checked |-> FALSE]
    ELSE [outcome |-> "copied", sha_checked |-> FALSE]

_copy_if_fresh_verified(src, cpp, manifest_data, so_name) ==
    IF ~src.exists THEN [outcome |-> "missing", sha_checked |-> FALSE]
    ELSE IF src.mtime < cpp.mtime THEN [outcome |-> "stale", sha_checked |-> FALSE]
    ELSE LET hashes == Get(manifest_data, "hashes", EmptyDict)
             expected == StripLower(Get(hashes, so_name, ""))
         IN  IF expected # "" /\ StripLower(_sha256_file(src.bytes)) # expected
             THEN [outcome |-> "sha_mismatch", sha_checked |-> TRUE]
             ELSE [outcome |-> "copied", sha_checked |-> expected # ""]

Event(step, outcome, sha_checked) ==
    [step |-> step, outcome |-> outcome, sha_checked |-> sha_checked]

\* faulty variant: the plain store is consulted without its manifest's data
Mut_try_prebuilt_plain_unverified(f, cpp, abi_guard_enabled, signature, so_name) ==
    LET Restored(src) ==
            [f EXCEPT !.target_so = src,
                      !.target_abi = IF abi_guard_enabled
                                     THEN _write_abi_sidecar(signature) ELSE @]
        m_key == _manifest_ok(f.manifest_key)
        key == IF m_key.ok
               THEN _copy_if_fresh_verified(f.prebuilt_key_so, cpp, m_key.manifest, so_name)
               ELSE [outcome |-> "manifest_mismatch", sha_checked |-> FALSE]
        plain == IF _manifest_ok(f.manifest_plain).ok
                 THEN _copy_if_fresh_verified(f.prebuilt_plain_so, cpp, EmptyDict, so_name)
                 ELSE [outcome |-> "manifest_mismatch", sha_checked |-> FALSE]
        key_event == Event("prebuilt_key", key.outcome, key.sha_checked)
        plain_event == Event("prebuilt_plain", plain.outcome, plain.sha_checked)
    IN  IF key.outcome = "copied"
        THEN [ok |-> TRUE, fs |-> Restored(f.prebuilt_key_so), events |-> <<key_event>>]
        ELSE IF plain.outcome = "copied"
        THEN [ok |-> TRUE, fs |-> Restored(f.prebuilt_plain_so),
              events |-> <<key_event, plain_event>>]
        ELSE [ok |-> FALSE, fs |-> f, events |-> <<key_event, plain_event>>]

\* faulty variant: the plain store is tried before the key-scoped one
Mut_try_prebuilt_plain_first(f, cpp, abi_guard_enabled, signature, so_name) ==
    LET Restored(src) ==
            [f EXCEPT !.target_so = src,
                      !.target_abi = IF abi_guard_enabled
                                     THEN _write_abi_sidecar(signature) ELSE @]
        Consult(manifest_file, src) ==
            LET m == _manifest_ok(manifest_file)
            IN  IF m.ok THEN _copy_if_fresh_verified(src, cpp, m.manifest, so_name)
                ELSE [outcome |-> "manifest_mismatch", sha_checked |-> FALSE]
        key == Consult(f.manifest_key, f.prebuilt_key_so)
        plain == Consult(f.manifest_plain, f.prebuilt_plain_so)
        key_event == Event("prebuilt_key", key.outcome, key.sha_checked)
        plain_event == Event("prebuilt_plain", plain.outcome, plain.sha_checked)
    IN  IF plain.outcome = "copied"
        THEN [ok |-> TRUE, fs |-> Restored(f.prebuilt_plain_so), events |-> <<plain_event>>]
        ELSE IF key.outcome = "copied"
        THEN [ok |-> TRUE, fs |-> Restored(f.prebuilt_key_so),
              events |-> <<plain_event, key_event>>]
        ELSE [ok |-> FALSE, fs |-> f, events |-> <<plain_event, key_event>>]

\* faulty variant: without the guard, the store's sidecar goes with the binary
Mut_try_prebuilt_with_sidecar(f, cpp, abi_guard_enabled, signature, so_name) ==
    LET Restored(src, abi) ==
            [f EXCEPT !.target_so = src,
                      !.target_abi = IF abi_guard_enabled THEN _write_abi_sidecar(signature)
                                     ELSE IF abi.kind # "absent" THEN abi ELSE @]
        Consult(manifest_file, src) ==
            LET m == _manifest_ok(manifest_file)
            IN  IF m.ok THEN _copy_if_fresh_verified(src, cpp, m.manifest, so_name)
                ELSE [outcome |-> "manifest_mismatch", sha_checked |-> FALSE]
        key == Consult(f.manifest_key, f.prebuilt_key_so)
        plain == Consult(f.manifest_plain, f.prebuilt_plain_so)
        key_event == Event("prebuilt_key", key.outcome, key.sha_checked)
        plain_event == Event("prebuilt_plain", plain.outcome, plain.sha_checked)
    IN  IF key.outcome = "copied"
        THEN [ok |-> TRUE, fs |-> Restored(f.prebuilt_key_so, f.prebuilt_key_abi),
              events |-> <<key_event>>]
        ELSE IF plain.outcome = "copied"
        THEN [ok |-> TRUE, fs |-> Restored(f.prebuilt_plain_so, f.prebuilt_plain_abi),
              events |-> <<key_event, plain_event>>]
        ELSE [ok |-> FALSE, fs |-> f, events |-> <<key_event, plain_event>>]

\* load.try_prebuilt: the key-scoped store, then the plain one
try_prebuilt(f, cpp, abi_guard_enabled, signature, so_name) ==
    LET Restored(src) ==
            [f EXCEPT !.target_so = src,
                      !.target_abi = IF abi_guard_enabled
                                     THEN _write_abi_sidecar(signature) ELSE @]
        Consult(manifest_file, src) ==
            LET m == _manifest_ok(manifest_file)
            IN  IF m.ok THEN _copy_if_fresh_verified(src, cpp, m.manifest, so_name)
                ELSE [outcome |-> "manifest_mismatch", sha_checked |-> FALSE]
        key_event(key) == Event("prebuilt_key", key.outcome, key.sha_checked)
        plain_event(plain) == Event("prebuilt_plain", plain.outcome, plain.sha_checked)
    IN  CHOOSE out \in
          { IF key.outcome = "copied"
            THEN [ok |-> TRUE, fs |-> Restored(f.prebuilt_key_so),
                  events |-> <<key_event(key)>>]
            ELSE CHOOSE second \in
                   { IF plain.outcome = "copied"
                     THEN [ok |-> TRUE, fs |-> Restored(f.prebuilt_plain_so),
                           events |-> <<key_event(key), plain_event(plain)>>]
                     ELSE [ok |-> FALSE, fs |-> f,
                           events |-> <<key_event(key), plain_event(plain)>>]
                     : plain \in {Consult(f.manifest_plain, f.prebuilt_plain_so)} } : TRUE
            : key \in {Consult(f.manifest_key, f.prebuilt_key_so)} } : TRUE

\* faulty variant: the target binary must be newer than the source
Mut_try_cache_strictly_newer(f, cpp, abi_guard_enabled, signature) ==
    IF ~f.target_so.exists THEN "missing"
    ELSE IF f.target_so.mtime <= cpp.mtime THEN "stale_mtime"
    ELSE IF abi_guard_enabled /\ ~_is_abi_compatible(f.target_abi, signature)
    THEN "stale_abi"
    ELSE "hit"

\* faulty variant: the sidecar is not looked at
Mut_try_cache_no_abi(f, cpp, abi_guard_enabled, signature) ==
    IF ~f.target_so.exists THEN "missing"
    ELSE IF f.target_so.mtime < cpp.mtime THEN "stale_mtime"
    ELSE "hit"

\* load.try_cache: "hit", or why the target binary is not used
try_cache(f, cpp, abi_guard_enabled, signature) ==
    IF ~f.target_so.exists THEN "missing"
    ELSE IF f.target_so.mtime < cpp.mtime THEN "stale_mtime"
    ELSE IF abi_guard_enabled /\ ~_is_abi_compatible(f.target_abi, signature)
    THEN "stale_abi"
    ELSE "hit"

\* the outcome of one call of load(): what it returned or raised, the sources
\* it consulted in order, and how often it ran the compiler
NoCall ==
    [called |-> FALSE, policy |-> "", compiler |-> "", save_prebuilt |-> FALSE,
     compile_only |-> FALSE, status |-> "", trace |-> <<>>, compiles |-> 0,
     returned |-> ""]

\* the locals of one call of load(): the files as the call found them, the
\* arguments, and what load() computes first
Call(engine_name, f, cpp, clock, output_dir, policy, compiler, save_prebuilt, cc, compile_only) ==
    [fs |-> f, cpp |-> cpp, clock |-> clock, policy |-> policy, compiler |-> compiler,
     save_prebuilt |-> save_prebuilt, cc |-> cc, compile_only |-> compile_only,
     so_name |-> so_name_of(engine_name, output_dir),
     abi_guard_enabled |-> output_dir,
     signature |-> _build_signature(cpp, compiler)]

\* _import_module_from_path: the import of a binary not built for this
\* machine raises
_import_module_from_path(so) ==
    IF so.bytes \in {ForeignBytes, PartialBytes} THEN "import_error" ELSE "module"

\* faulty variant: the module is imported for a compile-only caller too
Mut_Return_always_imports(c, g, status, trace, compiles) ==
    [fs |-> g,
     result |-> [called |-> TRUE, policy |-> c.policy, compiler |-> c.compiler,
                 save_prebuilt |-> c.save_prebuilt, compile_only |-> c.compile_only,
                 status |-> status, trace |-> trace, compiles |-> compiles,
                 returned |-> IF status \notin {"up_to_date", "restored", "rebuilt"}
                              THEN "raised"
                              ELSE _import_module_from_path(g.target_so)]]

\* how a branch of load() ends: an error raised, or build_status set and then
\* {"ok", "path", "status"} returned to a compile-only caller, the module
\* imported from target_so for any other
Return(c, g, status, trace, compiles) ==
    [fs |-> g,
     result |-> [called |-> TRUE, policy |-> c.policy, compiler |-> c.compiler,
                 save_prebuilt |-> c.save_prebuilt, compile_only |-> c.compile_only,
                 status |-> status, trace |-> trace, compiles |-> compiles,
                 returned |-> IF status \notin {"up_to_date", "restored", "rebuilt"}
                              THEN "raised"
                              ELSE IF c.compile_only THEN "path_status"
                              ELSE _import_module_from_path(g.target_so)]]

\* _build_module, then the sidecar and the backup; the call ends "rebuilt" or
\* with the build's error
build_and_finish(c, trace) ==
    LET stamped(b) == [b.fs EXCEPT !.target_abi = _write_abi_sidecar(c.signature)]
    IN  CHOOSE out \in
          { Return(c,
                   IF b.outcome = "ok" /\ c.abi_guard_enabled
                   THEN IF c.save_prebuilt THEN _backup_prebuilt(stamped(b), c.so_name)
                        ELSE stamped(b)
                   ELSE b.fs,
                   IF b.outcome = "ok" THEN "rebuilt" ELSE b.outcome,
                   Append(trace, Event("build", b.outcome, FALSE)), b.compiles)
            : b \in {_build_module(c.fs, c.cpp, c.compiler, c.cc, c.clock)} } : TRUE

\* the branch taken when try_cache() holds: the backup, status "up_to_date"
use_cache(c, trace) ==
    Return(c,
           IF c.abi_guard_enabled /\ c.save_prebuilt THEN _backup_prebuilt(c.fs, c.so_name)
           ELSE c.fs,
           "up_to_date", trace, 0)

load_prefer_prebuilt(c) ==
    LET cache_event(cache) == <<Event("cache", cache, FALSE)>>
    IN  CHOOSE out \in
          { IF pre.ok THEN Return(c, pre.fs, "restored", pre.events, 0)
            ELSE CHOOSE second \in
                   { IF cache = "hit" THEN use_cache(c, pre.events \o cache_event(cache))
                     ELSE build_and_finish(c, pre.events \o cache_event(cache))
                     : cache \in {try_cache(c.fs, c.cpp, c.abi_guard_enabled,
                                             c.signature)} } : TRUE
            : pre \in {try_prebuilt(c.fs, c.cpp, c.abi_guard_enabled, c.signature,
                                     c.so_name)} } : TRUE

\* faulty variant: prefer_cache consults the stores before the fast cache
Mut_prefer_cache_stores_first(c) == load_prefer_prebuilt(c)

load_prefer_cache(c) ==
    LET cache_event(cache) == <<Event("cache", cache, FALSE)>>
    IN  CHOOSE out \in
          { IF cache = "hit" THEN use_cache(c, cache_event(cache))
            ELSE CHOOSE second \in
                   { IF pre.ok
                     THEN Return(c, pre.fs, "restored", cache_event(cache) \o pre.events, 0)
                     ELSE build_and_finish(c, cache_event(cache) \o pre.events)
                     : pre \in {try_prebuilt(c.fs, c.cpp, c.abi_guard_enabled,
                                              c.signature, c.so_name)} } : TRUE
            : cache \in {try_cache(c.fs, c.cpp, c.abi_guard_enabled, c.signature)} } : TRUE

\* faulty variant: prebuilt_only falls back to the build step
Mut_prebuilt_only_builds(c) ==
    LET pre == try_prebuilt(c.fs, c.cpp, c.abi_guard_enabled, c.signature, c.so_name)
    IN  IF pre.ok THEN Return(c, pre.fs, "restored", pre.events, 0)
        ELSE build_and_finish(c, pre.events)

load_prebuilt_only(c) ==
    CHOOSE out \in
      { IF pre.ok THEN Return(c, pre.fs, "restored", pre.events, 0)
        ELSE Return(c, c.fs, "no_compatible_prebuilt", pre.events, 0)
        : pre \in {try_prebuilt(c.fs, c.cpp, c.abi_guard_enabled, c.signature,
                                 c.so_name)} } : TRUE

\* faulty variant: build_only accepts a usable fast-cache entry
Mut_build_only_uses_cache(c) ==
    IF try_cache(c.fs, c.cpp, c.abi_guard_enabled, c.signature) = "hit"
    THEN use_cache(c, <<Event("cache", "hit", FALSE)>>)
    ELSE build_and_finish(c, <<>>)

load_build_only(c) == build_and_finish(c, <<>>)

\* autobin.load(engine, output_dir, compiler, save_prebuilt, policy, compile_only)
\* (a source directory or source file that is not there: AutoBinError at once)
load(engine_name, f, cpp, clock, output_dir, policy, compiler, save_prebuilt, cc, compile_only) ==
    CHOOSE out \in
      { IF ~cpp.exists THEN Return(c, f, "source_not_found", <<>>, 0)
        ELSE IF policy = "build_only" THEN load_build_only(c)
        ELSE IF policy = "prebuilt_only" THEN load_prebuilt_only(c)
        ELSE IF policy = "prefer_cache" THEN load_prefer_cache(c)
        ELSE load_prefer_prebuilt(c)
        : c \in {Call(engine_name, f, cpp, clock, output_dir, policy, compiler,
                       save_prebuilt, cc, compile_only)} } : TRUE

\* ------------------------------------------------------------------- state
VARIABLES
    output_dir,   \* whether the deployment passes output_dir to load()
    now,          \* the clock that stamps modification times
    cpp,          \* <source_dir>/<engine>.cpp
    fs,           \* the files of the engine (see EmptyFs)
    envOps,       \* modifications made from outside so far
    result,       \* the outcome of the call of load() just made, or NoCall
    manifest_path,  \* a manifest.json handed to the manifest functions
    compatible,     \* what they answered for it, once asked
    project,        \* core/engines: whether it is there, and each engine's files
    linker,         \* the CppHandler1 of the process
    hotfix_builds,  \* per engine, the self-hotfix builds started so far
    swaps,          \* binaries and libraries replaced from outside so far
    calls,          \* calls of the linker made by the window so far
    done,           \* the outcome of the builder or linker call just made
    worker,         \* the CppEngineWorker of the process
    wall,           \* time.time(), in seconds
    disk,           \* the project tree that clean_binaries and prune_cache work on
    request,        \* the arguments the maintenance commands are run with
    reports,        \* what the maintenance calls made so far returned
    runtime,        \* the interpreter and platform that cache_key() runs on
    builders,       \* the processes that build one engine at the same time
    target          \* the paths they build into: <out_so>.tmp and <out_so>

\* the loader's variables
vars == <<output_dir, now, cpp, fs, envOps, result>>

\* the variables of the manifest functions on their own
manifestVars == <<manifest_path, compatible>>

NotAsked == [asked |-> FALSE, ok |-> FALSE, data |-> EmptyDict]

ManifestIdle == manifest_path = AbsentJson /\ compatible = NotAsked

\* the variables of the maintenance commands and of cache_key
toolVars == <<disk, request, reports, runtime, builders, target>>

NoDisk == [p \in {} |-> 0]

NoRequest == [cmd |-> ""]

NoRuntime == [version_info |-> <<0, 0>>, SOABI |-> {}, system |-> <<>>, machine |-> <<>>]

\* no process is building, and nothing is at the two paths
NoBuilders == [b \in {} |-> 0]

NoTarget == [tmp_so |-> {}, out_so |-> {}, inodes |-> <<>>]

BuildersIdle == builders = NoBuilders /\ target = NoTarget

ToolsIdle ==
    /\ disk = NoDisk /\ request = NoRequest /\ reports = <<>> /\ runtime = NoRuntime
    /\ BuildersIdle

\* the engines of the application that the model follows, in sorted() order
EngineOrder == <<"cpu", "gpu_nvidia", "gpu_others">>

Engines == {EngineOrder[i] : i \in DOMAIN EngineOrder}

\* the variables of the builder, the linker and the watchdog
linkerVars == <<project, linker, hotfix_builds, swaps, calls, done, worker, wall>>

\* CppHandler1.__init__
NewLinker ==
    [loaded_engines |-> EmptyDict, link_failures |-> EmptyDict, _hotfix_attempted |-> {}]

NoOp == [op |-> ""]

\* CppEngineWorker.__init__
NewWorker ==
    [active_engines |-> <<>>, is_active |-> FALSE, _engine_fail_streak |-> EmptyDict,
     _engine_last_heal_ts |-> EmptyDict]

\* time.time() when the process starts: long after the epoch
BootTime == 100

LinkerIdle ==
    /\ project = [exists |-> FALSE,
                  engines |-> [e \in Engines |-> [cpp |-> NoFile, fs |-> EmptyFs]],
                  imports |-> [e \in Engines |-> "ok"]]
    /\ linker = NewLinker
    /\ hotfix_builds = [e \in Engines |-> 0]
    /\ swaps = 0
    /\ calls = 0
    /\ done = NoOp
    /\ worker = NewWorker
    /\ wall = BootTime

\* what the loader's steps leave alone
nonLoaderVars == <<manifestVars, linkerVars, toolVars>>

NonLoaderIdle == ManifestIdle /\ LinkerIdle /\ ToolsIdle

Init ==
    /\ output_dir \in BOOLEAN
    /\ now = 0
    /\ cpp = File("v1", 0)
    /\ fs = EmptyFs
    /\ envOps = 0
    /\ result = NoCall
    /\ NonLoaderIdle

\* one call of autobin.load
Load(policy, compiler, save_prebuilt, cc, compile_only) ==
    LET r == load("cpu", fs, cpp, now, output_dir, policy, compiler, save_prebuilt, cc,
                  compile_only)
    IN  /\ ~result.called
        /\ fs' = r.fs
        /\ result' = r.result
        /\ UNCHANGED <<output_dir, now, cpp, envOps, nonLoaderVars>>

\* a prefer_cache call of autobin.load made once more, right after the first
\* returned its status: the same arguments, the files as the first call left
\* them; the outcome remembers the first call's status as "first"
LoadAgain(cc) ==
    LET r == load("cpu", fs, cpp, now, output_dir, result.policy, result.compiler,
                  result.save_prebuilt, cc, result.compile_only)
    IN  /\ result.called
        /\ result.policy = "prefer_cache"
        /\ result.status \in {"up_to_date", "restored", "rebuilt"}
        /\ "first" \notin DOMAIN result
        /\ fs' = r.fs
        /\ result' = r.result @@ [first |-> result.status]
        /\ UNCHANGED <<output_dir, now, cpp, envOps, nonLoaderVars>>

\* the caller takes the outcome; nothing else happens between the call and this
Returned ==
    /\ result.called
    /\ result' = NoCall
    /\ UNCHANGED <<output_dir, now, cpp, fs, envOps, nonLoaderVars>>

\* ------------------------------------------------------- the environment
\* the developer saves another text of the source file, later than
\* everything written so far
EditSource(bytes) ==
    /\ ~result.called
    /\ now < MaxTime
    /\ bytes # cpp.bytes
    /\ now' = now + 1
    /\ cpp' = File(bytes, now')
    /\ result' = NoCall
    /\ UNCHANGED <<output_dir, fs, envOps, nonLoaderVars>>

\* the fast cache / target binary is deleted with its sidecar
ClearTarget ==
    /\ ~result.called
    /\ (fs.target_so.exists \/ fs.target_abi.kind # "absent")
    /\ fs' = [fs EXCEPT !.target_so = NoFile, !.target_abi = AbsentJson]
    /\ result' = NoCall
    /\ UNCHANGED <<output_dir, now, cpp, envOps, nonLoaderVars>>

Stores == {"key", "plain"}

StoreSo(f, store) == IF store = "key" THEN f.prebuilt_key_so ELSE f.prebuilt_plain_so

StoreManifest(f, store) == IF store = "key" THEN f.manifest_key ELSE f.manifest_plain

WithStore(f, store, so, abi, manifest) ==
    IF store = "key"
    THEN [f EXCEPT !.prebuilt_key_so = so, !.prebuilt_key_abi = abi, !.manifest_key = manifest]
    ELSE [f EXCEPT !.prebuilt_plain_so = so, !.prebuilt_plain_abi = abi,
                   !.manifest_plain = manifest]

EnvStep ==
    /\ ~result.called
    /\ envOps < MaxEnvOps
    /\ envOps' = envOps + 1
    /\ result' = NoCall
    /\ UNCHANGED <<output_dir, now, cpp, nonLoaderVars>>

\* a prebuilt store arrives with the application: the current source built
\* with g++ on a machine with the given value of "machine" (other bytes on
\* another machine), with the sidecar and the manifest a backup there writes
ShipPrebuilt(store, machine) ==
    LET fp == [runtime_info EXCEPT !.machine = machine]
        so == File(IF machine = runtime_info.machine THEN CompileBytes(cpp.bytes, "g++")
                   ELSE ForeignBytes, now)
        abi == JsonFile([k \in FingerprintKeys \cup {"build_signature"} |->
                          IF k = "build_signature" THEN _build_signature(cpp, "g++")
                          ELSE fp[k]])
        manifest == JsonFile([k \in FingerprintKeys \cup {"hashes"} |->
                          IF k = "hashes"
                          THEN [n \in {SoName(output_dir)} |-> _sha256_file(so.bytes)]
                          ELSE fp[k]])
    IN  /\ EnvStep
        /\ fs' = WithStore(fs, store, so, abi, manifest)

ManifestTampers == {"malformed", "wrong_hash", "upper_hash", "drop_hashes", "system_case"}

Tampered(file, kind, so_name, so) ==
    LET data == read_manifest(file)
        SetKey(k, v) == JsonFile([x \in DOMAIN data \cup {k} |-> IF x = k THEN v ELSE data[x]])
        SetHash(h) ==
            LET old == Get(data, "hashes", EmptyDict)
            IN  SetKey("hashes", [n \in DOMAIN old \cup {so_name} |->
                                    IF n = so_name THEN h ELSE old[n]])
    IN  CASE kind = "malformed" -> MalformedJson
          [] kind = "wrong_hash" -> SetHash(_sha256_file(PartialBytes))
          [] kind = "upper_hash" -> SetHash(UpperHex(_sha256_file(so.bytes)))
          [] kind = "drop_hashes" -> JsonFile([x \in DOMAIN data \ {"hashes"} |-> data[x]])
          [] OTHER -> SetKey("system", "Linux")

\* the manifest of a store is edited, replaced or removed
TamperManifest(store, kind) ==
    LET new == Tampered(StoreManifest(fs, store), kind, SoName(output_dir), StoreSo(fs, store))
    IN  /\ new # StoreManifest(fs, store)
        /\ EnvStep
        /\ fs' = IF store = "key" THEN [fs EXCEPT !.manifest_key = new]
                  ELSE [fs EXCEPT !.manifest_plain = new]

\* the sidecar of the target binary is removed, or comes from a machine with
\* another fingerprint
TamperSidecar(kind) ==
    LET data == _read_abi_sidecar(fs.target_abi)
        new == IF kind = "delete" THEN AbsentJson
               ELSE JsonFile([x \in DOMAIN data \cup {"machine"} |->
                                IF x = "machine" THEN "aarch64" ELSE data[x]])
    IN  /\ fs.target_so.exists
        /\ new # fs.target_abi
        /\ EnvStep
        /\ fs' = [fs EXCEPT !.target_abi = new]

Next ==
    \/ \E policy \in Policies, compiler \in Compilers, save_prebuilt \in BOOLEAN,
          cc \in Toolchains :
          Load(policy, compiler, save_prebuilt, cc, TRUE)
    \/ \E policy \in Policies, cc \in Toolchains :
          Load(policy, "g++", TRUE, cc, FALSE)
    \/ \E cc \in Toolchains : LoadAgain(cc)
    \/ Returned
    \/ \E bytes \in SourceVersions : EditSource(bytes)
    \/ ClearTarget
    \/ \E store \in Stores, machine \in {"x86_64", "aarch64"} : ShipPrebuilt(store, machine)
    \/ \E store \in Stores, kind \in ManifestTampers : TamperManifest(store, kind)
    \/ \E kind \in {"delete", "other_machine"} : TamperSidecar(kind)

Spec == Init /\ [][Next]_vars

\* ----------------------------------------------------------------- claims
\* what the claims say about a call, stated from the files the call found
\* (unprimed in an action formula) and from its outcome

Successes == {"up_to_date", "restored", "rebuilt"}

BuildErrors == {"toolchain_unavailable", "build_failed", "interrupted"}

Steps(r) == [i \in DOMAIN r.trace |-> r.trace[i].step]

LastEvent(r) == r.trace[Len(r.trace)]

\* the store a restoring call copied from
RestoredFrom(r, store) ==
    /\ r.called
    /\ r.status = "restored"
    /\ LastEvent(r).step = (IF store = "key" THEN "prebuilt_key" ELSE "prebuilt_plain")

StoreAbi(f, store) == IF store = "key" THEN f.prebuilt_key_abi ELSE f.prebuilt_plain_abi

\* the hash a store's manifest records for the binary's file name ("" for none)
RecordedHash(f, store, so_name) ==
    StripLower(Get(Get(read_manifest(StoreManifest(f, store)), "hashes", EmptyDict),
                   so_name, ""))

HashMismatch(f, store, so_name) ==
    /\ StoreSo(f, store).exists
    /\ RecordedHash(f, store, so_name) # ""
    /\ RecordedHash(f, store, so_name) # _sha256_file(StoreSo(f, store).bytes)

\* a store a restore may take the binary from (spec 4.2, consulting a store)
StoreUsable(f, c, store, so_name) ==
    /\ is_manifest_compatible(read_manifest(StoreManifest(f, store)))
    /\ StoreSo(f, store).exists
    /\ StoreSo(f, store).mtime >= c.mtime
    /\ ~HashMismatch(f, store, so_name)

\* a sidecar that records the current fingerprint and the given signature
SidecarRecords(sidecar, signature) ==
    /\ sidecar.kind = "dict"
    /\ FingerprintKeys \cup {"build_signature"} \subseteq DOMAIN sidecar.data
    /\ \A k \in FingerprintKeys : sidecar.data[k] = runtime_info[k]
    /\ sidecar.data["build_signature"] = signature

\* a fast-cache entry that may be used (spec 4.2, consulting the fast cache)
CacheUsable(f, c, guard, signature) ==
    /\ f.target_so.exists
    /\ f.target_so.mtime >= c.mtime
    /\ guard => SidecarRecords(f.target_abi, signature)

\* the signature of the caller of the call whose outcome is r
CallerSignature(r) ==
    [source_sha256 |-> _sha256_file(cpp.bytes), compiler |-> r.compiler,
     cxx_std |-> "c++17", extra_compile_args |-> <<>>, extra_link_args |-> <<>>]

\* C1: a restore never takes a store binary whose content hash differs from the
\* hash the store's manifest records for its file name; the mismatching
\* candidate is skipped with the warning and the call goes on to the next
\* source, so that under prefer_prebuilt with a tampered key-store hash (and no
\* plain store) the call ends at the fast cache or in the build step.
C1_NoRestoreOnHashMismatch ==
    [][result'.called =>
        /\ \A store \in Stores :
             HashMismatch(fs, store, SoName(output_dir)) =>
               /\ ~RestoredFrom(result', store)
               /\ \A i \in DOMAIN result'.trace :
                    result'.trace[i].step = "prebuilt_" \o store =>
                      /\ result'.trace[i].outcome
                           \in {"sha_mismatch", "stale", "manifest_mismatch"}
                      /\ i < Len(result'.trace) \/ result'.policy = "prebuilt_only"
        /\ ( /\ result'.policy = "prefer_prebuilt"
             /\ HashMismatch(fs, "key", SoName(output_dir))
             /\ ~fs.prebuilt_plain_so.exists )
           => /\ LastEvent(result').step \in {"cache", "build"}
              /\ result'.status \in {"up_to_date", "rebuilt"} \cup BuildErrors
    ]_vars

\* C1 witness: prefer_prebuilt found the key store's binary fresh, its manifest
\* compatible and its hash wrong, skipped it and ended at the fast cache
C1_Witness ==
    /\ result.called
    /\ result.policy = "prefer_prebuilt"
    /\ result.status = "up_to_date"
    /\ result.trace[1] = Event("prebuilt_key", "sha_mismatch", TRUE)

\* C2 as stated: whenever the store directory has a manifest, a binary is
\* copied from it only after its hash was compared against the manifest.
C2_ComparedWheneverManifestExists ==
    \A store \in Stores :
        (RestoredFrom(result, store) /\ StoreManifest(fs, store).kind = "dict")
            => LastEvent(result).sha_checked

\* C2 amended: whenever the store's manifest records a hash for the binary's
\* file name, a binary is copied from that store only after its content hash
\* was compared with the recorded one; the copy in the target is that binary.
C2_ComparedWheneverHashRecorded ==
    \A store \in Stores :
        RestoredFrom(result, store) =>
            /\ fs.target_so = StoreSo(fs, store)
            /\ LastEvent(result).sha_checked
                 <=> RecordedHash(fs, store, SoName(output_dir)) # ""

\* C2 witness: a restore from the plain store, whose manifest records the hash
C2_Witness ==
    /\ RestoredFrom(result, "plain")
    /\ RecordedHash(fs, "plain", SoName(output_dir)) # ""
    /\ LastEvent(result).sha_checked

\* C3 as stated: with the guard active, a binary is accepted without building
\* (up_to_date from the target, restored from a store) only if the sidecar
\* recorded for it carries the current fingerprint and the caller's signature.
\* Stated for the runs in which nothing but the loader wrote the files.
C3_AcceptedOnlyIfInterfaceCompatible ==
    (output_dir /\ envOps = 0 /\ result.called
        /\ result.status \in {"up_to_date", "restored"}) =>
        /\ result.status = "up_to_date"
             => SidecarRecords(fs.target_abi, CallerSignature(result))
        /\ \A store \in Stores :
             RestoredFrom(result, store)
                => SidecarRecords(StoreAbi(fs, store), CallerSignature(result))

\* C4: prefer_prebuilt tries key store, plain store, fast cache, build in this
\* order and stops at the first that succeeds: each source is reached only
\* when all earlier ones were unusable, and the compiler only after all three.
C4_PreferPrebuiltOrder ==
    [][(result'.called /\ result'.policy = "prefer_prebuilt") =>
        LET so_name == SoName(output_dir)
            key_ok == StoreUsable(fs, cpp, "key", so_name)
            plain_ok == StoreUsable(fs, cpp, "plain", so_name)
            cache_ok == CacheUsable(fs, cpp, output_dir, CallerSignature(result'))
            r == result'
        IN  /\ key_ok => RestoredFrom(r, "key") /\ Steps(r) = <<"prebuilt_key">>
            /\ (~key_ok /\ plain_ok) =>
                 RestoredFrom(r, "plain") /\ Steps(r) = <<"prebuilt_key", "prebuilt_plain">>
            /\ (~key_ok /\ ~plain_ok /\ cache_ok) =>
                 /\ r.status = "up_to_date"
                 /\ Steps(r) = <<"prebuilt_key", "prebuilt_plain", "cache">>
            /\ (~key_ok /\ ~plain_ok /\ ~cache_ok) =>
                 /\ r.status \in {"rebuilt"} \cup BuildErrors
                 /\ Steps(r) = <<"prebuilt_key", "prebuilt_plain", "cache", "build">>
            /\ r.compiles = (IF r.status \in {"rebuilt", "build_failed", "interrupted"}
                             THEN 1 ELSE 0)
    ]_vars

\* C4 witnesses: the fast cache used after both stores were found unusable;
\* the compiler run after all three were
C4_Witness ==
    /\ result.called /\ result.policy = "prefer_prebuilt"
    /\ result.status = "rebuilt" /\ result.compiles = 1
    /\ result.trace[1].outcome = "stale"
    /\ result.trace[3].outcome = "stale_abi"

\* C5: prefer_cache tries the fast cache first; the stores (key, then plain)
\* are consulted only when the cache entry is missing or stale; the compiler
\* runs only when the cache and both stores were unusable.
C5_PreferCacheOrder ==
    [][(result'.called /\ result'.policy = "prefer_cache") =>
        LET so_name == SoName(output_dir)
            key_ok == StoreUsable(fs, cpp, "key", so_name)
            plain_ok == StoreUsable(fs, cpp, "plain", so_name)
            cache_ok == CacheUsable(fs, cpp, output_dir, CallerSignature(result'))
            r == result'
        IN  /\ cache_ok => r.status = "up_to_date" /\ Steps(r) = <<"cache">>
            /\ (~cache_ok /\ key_ok) =>
                 RestoredFrom(r, "key") /\ Steps(r) = <<"cache", "prebuilt_key">>
            /\ (~cache_ok /\ ~key_ok /\ plain_ok) =>
                 /\ RestoredFrom(r, "plain")
                 /\ Steps(r) = <<"cache", "prebuilt_key", "prebuilt_plain">>
            /\ (~cache_ok /\ ~key_ok /\ ~plain_ok) =>
                 /\ r.status \in {"rebuilt"} \cup BuildErrors
                 /\ Steps(r) = <<"cache", "prebuilt_key", "prebuilt_plain", "build">>
            /\ r.trace[1].outcome \in {"hit", "missing", "stale_mtime", "stale_abi"}
            /\ r.compiles = (IF r.status \in {"rebuilt", "build_failed", "interrupted"}
                             THEN 1 ELSE 0)
    ]_vars

\* C5 witness: a stale cache entry, then a restore from the plain store
C5_Witness ==
    /\ RestoredFrom(result, "plain") /\ result.policy = "prefer_cache"
    /\ result.trace[1].outcome \in {"stale_mtime", "stale_abi"}

\* C6: prebuilt_only never runs the compiler and never accepts the fast-cache
\* entry: it restores from the key store, else from the plain store, else
\* fails with the no-compatible-prebuilt error and leaves every file as it was.
C6_PrebuiltOnlyNeverBuilds ==
    [][(result'.called /\ result'.policy = "prebuilt_only") =>
        LET so_name == SoName(output_dir)
            key_ok == StoreUsable(fs, cpp, "key", so_name)
            plain_ok == StoreUsable(fs, cpp, "plain", so_name)
            r == result'
        IN  /\ r.compiles = 0
            /\ \A i \in DOMAIN r.trace : r.trace[i].step \in {"prebuilt_key", "prebuilt_plain"}
            /\ r.status \in {"restored", "no_compatible_prebuilt"}
            /\ key_ok => RestoredFrom(r, "key") /\ fs'.target_so = fs.prebuilt_key_so
            /\ (~key_ok /\ plain_ok) =>
                 RestoredFrom(r, "plain") /\ fs'.target_so = fs.prebuilt_plain_so
            /\ (~key_ok /\ ~plain_ok) => r.status = "no_compatible_prebuilt" /\ fs' = fs
    ]_vars

\* C6 witness: prebuilt_only failed although the fast-cache entry was usable
C6_Witness ==
    /\ result.called /\ result.policy = "prebuilt_only"
    /\ result.status = "no_compatible_prebuilt"
    /\ CacheUsable(fs, cpp, output_dir, CallerSignature(result))

\* C7 as stated: under build_only every call runs the compiler exactly once,
\* whatever the fast cache and the stores contain; nothing is accepted as up to
\* date, nothing is restored.
C7_BuildOnlyCompilesExactlyOnce ==
    (result.called /\ result.policy = "build_only") =>
        /\ result.compiles = 1
        /\ Steps(result) = <<"build">>
        /\ result.status \notin {"up_to_date", "restored"}

\* C7 amended: under build_only every call goes straight to the build step,
\* whatever the fast cache and the stores contain; nothing is accepted as up to
\* date, nothing is restored; the compiler runs exactly once, except that it
\* does not run when the include detection before it fails.
C7_BuildOnlyAlwaysBuilds ==
    (result.called /\ result.policy = "build_only") =>
        /\ Steps(result) = <<"build">>
        /\ result.status \in {"rebuilt"} \cup BuildErrors
        /\ result.compiles = (IF result.status = "toolchain_unavailable" THEN 0 ELSE 1)
        /\ result.status = "rebuilt" =>
             fs.target_so = File(CompileBytes(cpp.bytes, result.compiler), now)

\* C7 witness: build_only ran the compiler (which failed, so that the files
\* are those the call found) although cache and key store were both usable
C7_Witness ==
    /\ result.called /\ result.policy = "build_only"
    /\ result.status = "build_failed" /\ result.compiles = 1
    /\ CacheUsable(fs, cpp, output_dir, CallerSignature(result))
    /\ StoreUsable(fs, cpp, "key", SoName(output_dir))

\* C8: the fast-cache entry is accepted exactly when the target binary exists,
\* is not older than the source and, with the guard active, its sidecar
\* carries the current fingerprint and the caller's signature; an entry that
\* fails is skipped, and consulting it does not delete it.
C8_CacheAcceptedOnlyIfFresh ==
    [][(result'.called /\ \E i \in DOMAIN result'.trace : result'.trace[i].step = "cache") =>
        LET r == result'
            i == CHOOSE j \in DOMAIN r.trace : r.trace[j].step = "cache"
            cache_ok == CacheUsable(fs, cpp, output_dir, CallerSignature(r))
        IN  /\ r.trace[i].outcome = "hit" <=> cache_ok
            /\ r.status = "up_to_date" <=> cache_ok
            /\ cache_ok => i = Len(r.trace) /\ fs'.target_so = fs.target_so
                             /\ fs'.target_abi = fs.target_abi
            /\ ~cache_ok =>
                 /\ i < Len(r.trace)
                 /\ fs.target_so.exists => fs'.target_so.exists
                 /\ r.status \notin {"restored", "rebuilt"} =>
                      fs'.target_so = fs.target_so /\ fs'.target_abi = fs.target_abi
    ]_vars

\* C8 witness: an entry with a sidecar of another signature was skipped, the
\* build after it failed, and the entry is still there
C8_Witness ==
    /\ result.called /\ output_dir
    /\ \E i \in DOMAIN result.trace : result.trace[i] = Event("cache", "stale_abi", FALSE)
    /\ result.status = "build_failed"
    /\ fs.target_so.exists /\ fs.target_abi.kind = "dict"

\* C9: the live path never holds a partial binary: the compiler writes to the
\* temporary file, which replaces the target only after the compiler
\* succeeded; when the build step fails or is interrupted, the target binary,
\* its sidecar and both stores are what they were before the call.
C9_BuildIsAtomic ==
    /\ [](fs.target_so.bytes # PartialBytes)
    /\ [][(result'.called /\ result'.status \in BuildErrors) =>
            /\ fs'.target_so = fs.target_so
            /\ fs'.target_abi = fs.target_abi
            /\ \A store \in Stores :
                 /\ StoreSo(fs', store) = StoreSo(fs, store)
                 /\ StoreAbi(fs', store) = StoreAbi(fs, store)
                 /\ StoreManifest(fs', store) = StoreManifest(fs, store)
         ]_vars
    /\ [][(result'.called /\ result'.status = "rebuilt") =>
            /\ fs'.target_so = File(CompileBytes(cpp.bytes, result'.compiler), now)
            /\ ~fs'.tmp_so.exists
         ]_vars

\* C9 witness: an interrupted build left its partial output in the temporary
\* file, next to the target binary of an earlier build
C9_Witness ==
    /\ result.called /\ result.status = "interrupted"
    /\ fs.tmp_so.exists /\ fs.tmp_so.bytes = PartialBytes
    /\ fs.target_so.exists

\* C10: with the guard active, after every successful call (up_to_date,
\* restored, rebuilt) the target's sidecar records the current fingerprint and
\* the caller's build signature, whose source hash is the hash of the source
\* file's bytes.
C10_SidecarAfterSuccess ==
    (output_dir /\ result.called /\ result.status \in Successes) =>
        /\ SidecarRecords(fs.target_abi, CallerSignature(result))
        /\ fs.target_abi.data["build_signature"].source_sha256 = _sha256_file(cpp.bytes)
        /\ fs.target_abi.data["build_signature"].compiler = result.compiler

\* C10 witness: a restore, after the source was edited, of a binary that
\* another compiler built
C10_Witness ==
    /\ output_dir /\ result.called /\ result.status = "restored"
    /\ cpp.bytes = "v2"
    /\ result.compiler = "clang++"
    /\ fs.target_so.bytes = CompileBytes("v2", "g++")
    /\ SidecarRecords(fs.target_abi, CallerSignature(result))

\* the fast cache and both stores hold nothing for the engine
CachesEmpty(f) ==
    /\ ~f.target_so.exists /\ f.target_abi.kind = "absent"
    /\ \A store \in Stores :
         /\ ~StoreSo(f, store).exists
         /\ StoreAbi(f, store).kind = "absent"
         /\ StoreManifest(f, store).kind = "absent"

\* the key-scoped store as a backup of the binary so leaves it
BackedUp(f, so, so_name) ==
    /\ so.exists
    /\ f.prebuilt_key_so = so
    /\ f.manifest_key.kind = "dict"
    /\ \A k \in FingerprintKeys :
         k \in DOMAIN f.manifest_key.data /\ f.manifest_key.data[k] = runtime_info[k]
    /\ RecordedHash(f, "key", so_name) = _sha256_file(so.bytes)

\* C11 as stated: a successful build_only call with save_prebuilt on empty
\* caches ends "rebuilt" with a sidecar next to the target binary, a copy of
\* the binary in the key-scoped store and a hash for the binary's file name in
\* that store's manifest.
C11_BuildOnlyLeavesSidecarAndBackup ==
    [][(/\ result'.called /\ result'.policy = "build_only" /\ result'.save_prebuilt
        /\ result'.status \in Successes
        /\ CachesEmpty(fs)) =>
          /\ result'.status = "rebuilt"
          /\ fs'.target_so.exists
          /\ fs'.target_abi.kind = "dict"
          /\ BackedUp(fs', fs'.target_so, SoName(output_dir))
    ]_vars

\* C11 amended: the sidecar, the store copy and the manifest hash are written
\* when the call names an output directory (the guard is active); without one
\* the call ends "rebuilt" with the target binary only, and the stores stay
\* empty.
C11_BuildOnlyLeavesBackupUnderGuard ==
    [][(/\ result'.called /\ result'.policy = "build_only" /\ result'.save_prebuilt
        /\ result'.status \in Successes
        /\ CachesEmpty(fs)) =>
          /\ result'.status = "rebuilt"
          /\ fs'.target_so = File(CompileBytes(cpp.bytes, result'.compiler), now)
          /\ output_dir =>
               /\ SidecarRecords(fs'.target_abi, CallerSignature(result'))
               /\ BackedUp(fs', fs'.target_so, SoName(output_dir))
               /\ fs'.prebuilt_key_abi = fs'.target_abi
               /\ DOMAIN fs'.manifest_key.data["hashes"] = {SoName(output_dir)}
          /\ ~output_dir => CachesEmpty([fs' EXCEPT !.target_so = NoFile])
    ]_vars

\* C11 witness: the first call ever made was build_only with save_prebuilt and
\* an output directory, and left the sidecar and the backup
C11_Witness ==
    /\ output_dir /\ envOps = 0
    /\ result.called /\ result.policy = "build_only" /\ result.save_prebuilt
    /\ result.status = "rebuilt"
    /\ fs.target_abi.kind = "dict"
    /\ BackedUp(fs, fs.target_so, SoName(output_dir))
    /\ ~fs.prebuilt_plain_so.exists

\* C12: a build_only call that makes the backup leaves in the key-scoped store
\* the bytes it built, recorded in the manifest; deleting the target binary
\* leaves the store alone; and from a store so left, with the target binary
\* gone and the source as it was, prefer_prebuilt ends "restored" without
\* running the compiler, the target binary having the bytes of the store's,
\* which are those that were built.
C12_RestoreAfterBackupIsIdentical ==
    /\ [][(/\ result'.called /\ result'.policy = "build_only" /\ result'.status = "rebuilt"
           /\ output_dir /\ result'.save_prebuilt) =>
             /\ fs'.target_so.bytes = CompileBytes(cpp.bytes, result'.compiler)
             /\ BackedUp(fs', fs'.target_so, SoName(output_dir))
             /\ fs'.prebuilt_key_so.mtime >= cpp.mtime
          ]_vars
    /\ [][ClearTarget =>
             /\ ~fs'.target_so.exists
             /\ \A store \in Stores :
                  /\ StoreSo(fs', store) = StoreSo(fs, store)
                  /\ StoreManifest(fs', store) = StoreManifest(fs, store)
          ]_vars
    /\ [][(/\ result'.called /\ result'.policy = "prefer_prebuilt"
           /\ ~fs.target_so.exists
           /\ BackedUp(fs, fs.prebuilt_key_so, SoName(output_dir))
           /\ fs.prebuilt_key_so.mtime >= cpp.mtime) =>
             /\ result'.status = "restored"
             /\ result'.compiles = 0
             /\ fs'.target_so.exists
             /\ fs'.target_so.bytes = fs.prebuilt_key_so.bytes
          ]_vars

\* C12 witness: with nothing but the loader writing the files, a
\* prefer_prebuilt call restored from the key-scoped store the bytes a build
\* had left there
C12_Witness ==
    /\ output_dir /\ envOps = 0
    /\ result.called /\ result.policy = "prefer_prebuilt" /\ result.status = "restored"
    /\ RestoredFrom(result, "key")
    /\ fs.target_so.bytes = CompileBytes(cpp.bytes, "g++")
    /\ fs.target_so = fs.prebuilt_key_so

\* C13: when a prefer_cache call succeeded and the same call is made again
\* with the source unchanged, the second call does not run the compiler,
\* however the toolchain would behave, and ends "up_to_date" or "restored".
C13_PreferCacheIdempotent ==
    (/\ result.called /\ "first" \in DOMAIN result
     /\ result.policy = "prefer_cache"
     /\ result.first \in Successes) =>
        /\ result.compiles = 0
        /\ result.status \in {"up_to_date", "restored"}
        /\ \A i \in DOMAIN result.trace : result.trace[i].step # "build"

\* C13 witness: the second of two prefer_cache calls, the first of which had
\* to build, found the binary of the first
C13_Witness ==
    /\ result.called /\ "first" \in DOMAIN result
    /\ result.policy = "prefer_cache"
    /\ result.first = "rebuilt"
    /\ result.status = "up_to_date"
    /\ result.compiles = 0

\* C14 as stated: a successful restore copies into the target location the
\* store's binary and, when the store holds a sidecar for it, that sidecar.
C14_RestoreCopiesBinaryAndSidecar ==
    [][\A store \in Stores : RestoredFrom(result', store) =>
          /\ fs'.target_so = StoreSo(fs, store)
          /\ StoreAbi(fs, store).kind # "absent" => fs'.target_abi = StoreAbi(fs, store)
    ]_vars

\* C14 amended: a successful restore copies the store's binary, with its
\* modification time, into the target location and leaves the store alone;
\* the store's sidecar is not copied: with the guard the target's sidecar is
\* written anew from the caller's signature, without it the target's sidecar
\* stays what it was.
C14_RestoreCopiesBinaryOnly ==
    [][\A store \in Stores : RestoredFrom(result', store) =>
          /\ fs'.target_so = StoreSo(fs, store)
          /\ fs'.target_abi = (IF output_dir
                               THEN _write_abi_sidecar(CallerSignature(result'))
                               ELSE fs.target_abi)
          /\ \A other \in Stores :
               /\ StoreSo(fs', other) = StoreSo(fs, other)
               /\ StoreAbi(fs', other) = StoreAbi(fs, other)
               /\ StoreManifest(fs', other) = StoreManifest(fs, other)
    ]_vars

\* C14 witness: without the guard, a restore from a store that holds a sidecar
\* left the target binary without one
C14_Witness ==
    /\ ~output_dir
    /\ \E store \in Stores :
         /\ RestoredFrom(result, store)
         /\ StoreAbi(fs, store).kind = "dict"
         /\ fs.target_so = StoreSo(fs, store)
    /\ fs.target_abi.kind = "absent"

\* C15: every call that resolves sets exactly one status: "rebuilt" exactly
\* when the compiler ran (and produced the target binary), "restored" exactly
\* when the binary was copied from a store, "up_to_date" exactly when the
\* target binary that was there was accepted; a compile-only caller is
\* returned the path with this status, and no module is imported for it.
C15_OneStatusPerResolve ==
    [][(result'.called /\ result'.status \in Successes) =>
        LET r == result'
            last == LastEvent(r)
        IN  /\ r.status = "rebuilt" <=> r.compiles = 1
            /\ r.status = "rebuilt" <=> last = Event("build", "ok", FALSE)
            /\ r.status = "rebuilt" =>
                 fs'.target_so = File(CompileBytes(cpp.bytes, r.compiler), now)
            /\ r.status = "restored" <=>
                 last.step \in {"prebuilt_key", "prebuilt_plain"} /\ last.outcome = "copied"
            /\ r.status = "restored" <=> \E store \in Stores : RestoredFrom(r, store)
            /\ \A store \in Stores :
                 RestoredFrom(r, store) => fs'.target_so = StoreSo(fs, store)
            /\ r.status = "up_to_date" <=> last = Event("cache", "hit", FALSE)
            /\ r.status = "up_to_date" => fs'.target_so = fs.target_so /\ fs.target_so.exists
            /\ r.compile_only <=> r.returned = "path_status"
            /\ ~r.compile_only <=> r.returned \in {"module", "import_error"}
    ]_vars

\* C15 witness: a compile-only call that restored from the key-scoped store was
\* returned the path and the status, the compiler not having run
C15_Witness ==
    /\ result.called /\ result.status = "restored" /\ result.compiles = 0
    /\ result.compile_only /\ result.returned = "path_status"
    /\ RestoredFrom(result, "key")
    /\ fs.target_so = fs.prebuilt_key_so

\* ------------------------------------------- the manifest functions alone
\* manifest.read_manifest and manifest.is_manifest_compatible, asked about the
\* manifests a store directory may hold; the loader does nothing meanwhile

LoaderIdle ==
    /\ output_dir = FALSE /\ now = 0 /\ cpp = File("v1", 0) /\ fs = EmptyFs
    /\ envOps = 0 /\ result = NoCall

\* the texts a manifest may hold for each fingerprint field: none, the
\* runtime's own, the runtime's in another case or padded, another runtime's
ManifestValues ==
    [python_version |-> {"", "3.11", "3.12"},
     python_soabi |-> {"cpython-311-x86_64-linux-gnu", "cpython-312-x86_64-linux-gnu"},
     system |-> {"", "linux", "Linux", "darwin"},
     machine |-> {"x86_64", " x86_64 ", "aarch64"}]

ManifestFingerprints ==
    UNION {{d \in [present -> UNION {ManifestValues[k] : k \in FingerprintKeys}] :
              \A k \in present : d[k] \in ManifestValues[k]} :
           present \in SUBSET FingerprintKeys}

ManifestInputs ==
    {AbsentJson, MalformedJson}
    \cup {JsonFile(d) : d \in ManifestFingerprints}
    \cup {JsonFile(d @@ [hashes |-> [n \in {SoName(TRUE)} |-> _sha256_file(ForeignBytes)]]) :
            d \in ManifestFingerprints}

\* another manifest.json is put into the directory
PutManifest(file) ==
    /\ file # manifest_path
    /\ manifest_path' = file
    /\ compatible' = NotAsked
    /\ UNCHANGED <<vars, linkerVars, toolVars>>

\* is_manifest_compatible(read_manifest(path)), as _manifest_ok and the
\* builder ask
AskCompatible ==
    LET data == read_manifest(manifest_path)
    IN  /\ ~compatible.asked
        /\ compatible' = [asked |-> TRUE, ok |-> is_manifest_compatible(data), data |-> data]
        /\ UNCHANGED <<manifest_path, vars, linkerVars, toolVars>>

InitManifest == LoaderIdle /\ ManifestIdle /\ LinkerIdle /\ ToolsIdle

NextManifest ==
    \/ \E file \in ManifestInputs : PutManifest(file)
    \/ AskCompatible

SpecManifest == InitManifest /\ [][NextManifest]_<<vars, manifestVars, linkerVars, toolVars>>

\* str.lower() on the texts of ManifestValues
Lower(s) == IF s = "Linux" THEN "linux" ELSE s

\* the fingerprint fields a manifest file holds
FieldsPresent(file) ==
    IF file.kind = "dict" THEN FingerprintKeys \cap DOMAIN file.data ELSE {}

\* C16 as stated: an absent, malformed or empty manifest is compatible; any
\* other is compatible exactly when every fingerprint field present in it
\* equals the runtime's field, upper and lower case taken as the same; fields
\* that are absent do not count.
C16_CompatibleIffPresentFieldsEqual ==
    compatible.asked =>
        (compatible.ok <=>
            \A k \in FieldsPresent(manifest_path) :
                Lower(manifest_path.data[k]) = Lower(runtime_info[k]))

\* the texts that the comparison takes for the runtime's, and those it passes
\* over: surrounding blanks and case do not count, and an empty text is as good
\* as no field
SameAfterStripLower(k, text) ==
    \/ text = runtime_info[k]
    \/ <<k, text>> \in {<<"system", "Linux">>, <<"machine", " x86_64 ">>}

\* C16 amended: an absent, malformed or empty manifest is compatible; any
\* other is compatible exactly when every fingerprint field present in it with
\* a text that is not blank equals the runtime's field once both are stripped
\* of surrounding blanks and lower-cased; absent fields and fields with a
\* blank text do not count, so that a manifest with hashes only is compatible.
C16_CompatibleIffStrippedFieldsEqual ==
    compatible.asked =>
        /\ compatible.ok <=>
             \A k \in FieldsPresent(manifest_path) :
                 manifest_path.data[k] = "" \/ SameAfterStripLower(k, manifest_path.data[k])
        /\ manifest_path.kind # "dict" => compatible.ok /\ compatible.data = EmptyDict
        /\ FieldsPresent(manifest_path) = {} => compatible.ok

\* C16 witness: a manifest found compatible with one field empty, one padded
\* and one in another case, and a hash table besides
C16_Witness ==
    /\ compatible.asked /\ compatible.ok
    /\ manifest_path.kind = "dict"
    /\ DOMAIN manifest_path.data = {"python_version", "system", "machine", "hashes"}
    /\ manifest_path.data["python_version"] = ""
    /\ manifest_path.data["system"] = "Linux"
    /\ manifest_path.data["machine"] = " x86_64 "

\* ------------------------------------------------ the builder: build_all
\* core/engines holds one source file and one binary per engine; the two
\* manifest.json of the stores are one file each for all engines, kept the
\* same in every engine's record

\* builder.discover_engines: the stems of *.cpp, sorted
discover_engines(p) == SelectSeq(EngineOrder, LAMBDA e : p.engines[e].cpp.exists)

ShareManifests(engines, g) ==
    [e \in Engines |-> [engines[e] EXCEPT !.fs.manifest_key = g.manifest_key,
                                           !.fs.manifest_plain = g.manifest_plain]]

\* builder.build_engine with no engines.json: autobin.load for the engine;
\* what load raises is raised again
build_engine(p, engine_name, opts, cc, clock) ==
    LET mine == p.engines[engine_name]
        out(r) ==
            [project |-> [p EXCEPT !.engines =
                            ShareManifests([p.engines EXCEPT ![engine_name].fs = r.fs], r.fs)],
             raised |-> r.result.returned \in {"raised", "import_error"},
             attempt |-> [name |-> engine_name, policy |-> r.result.policy,
                          compiler |-> r.result.compiler,
                          compile_only |-> r.result.compile_only,
                          save_prebuilt |-> r.result.save_prebuilt,
                          status |-> r.result.status, returned |-> r.result.returned,
                          compiles |-> r.result.compiles]]
    IN  out(load(engine_name, mine.fs, mine.cpp, clock, opts.output_dir, opts.policy,
                 opts.compiler, opts.save_prebuilt, cc, opts.compile_only))

\* build_all before its loop: nothing attempted, result = {}, failed = []
NoBatch(p) ==
    [project |-> p, raised |-> FALSE, attempts |-> <<>>, result |-> EmptyDict,
     failed |-> <<>>]

\* the loop of build_all: build_engine for each name in turn, the result
\* kept under the name, an exception caught and the name put on failed
RECURSIVE build_loop(_, _, _, _, _)
build_loop(acc, engines, opts, cc, clock) ==
    IF engines = <<>> THEN acc
    ELSE LET name == Head(engines)
             next(r) ==
                 [project |-> r.project, raised |-> FALSE,
                  attempts |-> Append(acc.attempts, r.attempt),
                  result |-> IF r.raised THEN acc.result
                             ELSE (name :> r.attempt.returned) @@ acc.result,
                  failed |-> IF r.raised THEN Append(acc.failed, name) ELSE acc.failed]
         IN  build_loop(next(build_engine(acc.project, name, opts, cc[name], clock)),
                        Tail(engines), opts, cc, clock)

\* names = None
Discover == [given |-> FALSE, list |-> <<>>]

Named(list) == [given |-> TRUE, list |-> list]

\* builder.build_all: discover_engines raises BuilderError when source_dir
\* is not there; with engines to build, snapshot_toolchain(persist = True)
\* writes <project root>/.binman/toolchains/<key>.json before the loop and
\* what that raises is not caught; cc.compiler[e] is how the toolchain
\* behaves for engine e, cc.snapshot whether the snapshot can be written
build_all(p, names, opts, cc, clock) ==
    LET engines == IF names.given THEN names.list ELSE discover_engines(p)
    IN  IF ~names.given /\ ~p.exists THEN [NoBatch(p) EXCEPT !.raised = TRUE]
        ELSE IF engines = <<>> THEN NoBatch(p)
        ELSE IF cc.snapshot = "oserror" THEN [NoBatch(p) EXCEPT !.raised = TRUE]
        ELSE build_loop(NoBatch(p), engines, opts, cc.compiler, clock)

\* ------------------------------------------------- the linker: CppHandler1

Put(d, k, v) == (k :> v) @@ d

Pop(d, k) == [x \in DOMAIN d \ {k} |-> d[x]]

\* what str(e) of a failed import may read
LinkErrors ==
    {"undefined symbol: _ZN3fooEv", "invalid ELF header",
     "dynamic module does not define module export function"}

RecoverableMarkers ==
    {"python version mismatch", "undefined symbol", "wrong elf class",
     "invalid elf header", "cannot open shared object file", "file too short"}

\* a faulty classification: every error text counts as recoverable
Mut_looks_recoverable_always(error_text) == error_text = error_text

\* the markers that are part of the lower-cased text
MarkersIn(error_text) ==
    IF error_text = "undefined symbol: _ZN3fooEv" THEN {"undefined symbol"}
    ELSE IF error_text = "invalid ELF header" THEN {"invalid elf header"}
    ELSE {}

_looks_recoverable_link_error(error_text) ==
    MarkersIn(error_text) \cap RecoverableMarkers # {}

\* importlib.import_module / importlib.reload of the engine's binary: imp is
\* what the dynamic linker does with a binary built for this machine
import_module(so, imp) ==
    IF so.bytes \in {ForeignBytes, PartialBytes} /\ imp = "ok" THEN "invalid ELF header"
    ELSE imp

\* faulty variant: the binary is imported without looking for the file
Mut_link_engine_once_unchecked(lk, p, engine_name, imp) ==
    LET so == p.engines[engine_name].fs.target_so
        out == IF so.exists THEN import_module(so, imp) ELSE "No module named"
    IN  IF out # "ok"
        THEN [linker |-> lk, ok |-> FALSE, raised |-> out]
        ELSE [linker |-> [lk EXCEPT !.loaded_engines = Put(@, engine_name, so.bytes),
                                    !.link_failures = Pop(@, engine_name)],
              ok |-> TRUE, raised |-> ""]

_link_engine_once(lk, p, engine_name, imp) ==
    LET so == p.engines[engine_name].fs.target_so
        out == import_module(so, imp)
    IN  IF ~so.exists
        THEN [linker |-> [lk EXCEPT !.link_failures = Put(@, engine_name, "binary not found")],
              ok |-> FALSE, raised |-> ""]
        ELSE IF out # "ok"
        THEN [linker |-> lk, ok |-> FALSE, raised |-> out]
        ELSE [linker |-> [lk EXCEPT !.loaded_engines = Put(@, engine_name, so.bytes),
                                    !.link_failures = Pop(@, engine_name)],
              ok |-> TRUE, raised |-> ""]

\* the arguments of the build that _run_self_hotfix_build asks for
\* (output_dir = engines_dir; compiler and save_prebuilt by default)
HotfixOpts ==
    [output_dir |-> TRUE, compiler |-> "g++", compile_only |-> TRUE,
     save_prebuilt |-> TRUE, policy |-> "prefer_cache"]

\* faulty variant: the build is asked for the failing engine only
Mut_hotfix_build_named(lk, p, engine_name, cc, clock) ==
    IF engine_name \in lk._hotfix_attempted
    THEN [linker |-> lk, project |-> p, returned |-> FALSE, started |-> FALSE,
          batch |-> NoBatch(p)]
    ELSE LET out(b) ==
                 [linker |-> [lk EXCEPT !._hotfix_attempted = @ \cup {engine_name}],
                  project |-> b.project,
                  returned |-> ~b.raised /\ b.project.engines[engine_name].fs.target_so.exists,
                  started |-> TRUE, batch |-> b]
         IN  out(build_all(p, Named(<<engine_name>>), HotfixOpts, cc, clock))

\* faulty variant: the build is started whether or not one was attempted
Mut_hotfix_build_again(lk, p, engine_name, cc, clock) ==
    LET out(b) ==
            [linker |-> [lk EXCEPT !._hotfix_attempted = @ \cup {engine_name}],
             project |-> b.project,
             returned |-> ~b.raised /\ b.project.engines[engine_name].fs.target_so.exists,
             started |-> TRUE, batch |-> b]
    IN  out(build_all(p, Discover, HotfixOpts, cc, clock))

_run_self_hotfix_build(lk, p, engine_name, cc, clock) ==
    IF engine_name \in lk._hotfix_attempted
    THEN [linker |-> lk, project |-> p, returned |-> FALSE, started |-> FALSE,
          batch |-> NoBatch(p)]
    ELSE LET out(b) ==
                 [linker |-> [lk EXCEPT !._hotfix_attempted = @ \cup {engine_name}],
                  project |-> b.project,
                  returned |-> ~b.raised /\ b.project.engines[engine_name].fs.target_so.exists,
                  started |-> TRUE, batch |-> b]
         IN  out(build_all(p, Discover, HotfixOpts, cc, clock))

\* CppHandler1.link_engine: imp and imp2 are the outcomes of the import and
\* of the import retried after a self-hotfix build ("x \in {e}" names the
\* value of e, "CHOOSE out \in {...} : TRUE" is the one value built from it)
link_engine(lk, p, engine_name, imp, imp2, cc, clock) ==
    LET Out(first, l, q, returned, hotfix, batch) ==
            [linker |-> l, project |-> q, linked |-> TRUE, ok |-> returned,
             returned |-> returned, error |-> first.raised, hotfix |-> hotfix,
             batch |-> batch, retries |-> 0]
        how(h) == IF h.started THEN "started" ELSE "refused"
        failed(first) ==
            [first.linker EXCEPT !.link_failures = Put(@, engine_name, first.raised)]
        again(out) == [out EXCEPT !.retries = 1]
        retried(first, h, second) ==
            IF second.raised # ""
            THEN again(Out(first, [second.linker EXCEPT
                                     !.link_failures = Put(@, engine_name, second.raised)],
                           h.project, FALSE, how(h), h.batch))
            ELSE IF second.ok
            THEN again(Out(first, [second.linker EXCEPT
                                     !.link_failures = Pop(@, engine_name)],
                           h.project, TRUE, how(h), h.batch))
            ELSE again(Out(first, second.linker, h.project, FALSE, how(h), h.batch))
    IN  CHOOSE out \in
          { IF first.raised = ""
            THEN Out(first, first.linker, p, first.ok, "none", NoBatch(p))
            ELSE IF ~_looks_recoverable_link_error(first.raised)
            THEN Out(first, failed(first), p, FALSE, "none", NoBatch(p))
            ELSE CHOOSE hotfixed \in
                   { IF ~h.returned
                     THEN Out(first, h.linker, h.project, FALSE, how(h), h.batch)
                     ELSE retried(first, h,
                                  _link_engine_once(h.linker, h.project, engine_name, imp2))
                     : h \in {_run_self_hotfix_build(failed(first), p, engine_name,
                                                      cc, clock)} } : TRUE
            : first \in {_link_engine_once(lk, p, engine_name, imp)} } : TRUE

\* how the native method behaves once the engine is loaded
NativeCalls == {"value", "None", "raises", "no_method"}

\* faulty variant: an engine that is not loaded is not linked
Mut_invoke_method_no_lazy_link(lk, p, engine_name, imp, imp2, cc, clock, native) ==
    [linker |-> lk, project |-> p, linked |-> FALSE, ok |-> FALSE,
     returned |-> IF engine_name \in DOMAIN lk.loaded_engines /\ native = "value"
                  THEN "value" ELSE "None",
     error |-> "", hotfix |-> "none", batch |-> NoBatch(p)]

\* CppHandler1.invoke_method: the lazy link, then the call
invoke_method(lk, p, engine_name, imp, imp2, cc, clock, native) ==
    LET lazy == /\ engine_name \notin DOMAIN lk.loaded_engines
                /\ p.engines[engine_name].fs.target_so.exists
        call(after) ==
            [after EXCEPT !.returned =
                IF engine_name \in DOMAIN after.linker.loaded_engines /\ native = "value"
                THEN "value" ELSE "None"]
    IN  call(IF lazy THEN link_engine(lk, p, engine_name, imp, imp2, cc, clock)
             ELSE [linker |-> lk, project |-> p, linked |-> FALSE, ok |-> FALSE,
                   returned |-> FALSE, error |-> "", hotfix |-> "none",
                   batch |-> NoBatch(p)])

\* ---------------------------------------------- builder and linker: steps

MaxSwaps == 1

EngineKits == {"built", "foreign", "missing", "no_source"}

\* an engine as an installation may have it: built here, with a binary
\* brought from another machine, not built yet, or without its source
Kit(kind) ==
    LET src == File("v1", 0)
        other == [runtime_info EXCEPT !.machine = "aarch64"]
    IN  CASE kind = "built" ->
               [cpp |-> src,
                fs |-> [EmptyFs EXCEPT
                          !.target_so = File(CompileBytes("v1", "g++"), 0),
                          !.target_abi = _write_abi_sidecar(_build_signature(src, "g++"))]]
          [] kind = "foreign" ->
               [cpp |-> src,
                fs |-> [EmptyFs EXCEPT
                          !.target_so = File(ForeignBytes, 0),
                          !.target_abi =
                             JsonFile([k \in FingerprintKeys \cup {"build_signature"} |->
                                         IF k = "build_signature"
                                         THEN _build_signature(src, "g++") ELSE other[k]])]]
          [] kind = "missing" -> [cpp |-> src, fs |-> EmptyFs]
          [] OTHER -> [cpp |-> NoFile, fs |-> EmptyFs]

InitBuilder ==
    /\ LoaderIdle /\ ManifestIdle /\ ToolsIdle
    /\ \/ \E kits \in [Engines -> EngineKits] :
             project = [exists |-> TRUE, engines |-> [e \in Engines |-> Kit(kits[e])],
                        imports |-> [e \in Engines |-> "ok"]]
       \/ project = [exists |-> FALSE,
                     engines |-> [e \in Engines |-> Kit("no_source")],
                     imports |-> [e \in Engines |-> "ok"]]
    /\ linker = NewLinker
    /\ hotfix_builds = [e \in Engines |-> 0]
    /\ swaps = 0
    /\ calls = 0
    /\ done = NoOp
    /\ worker = NewWorker
    /\ wall = BootTime

BatchToolchains ==
    [compiler : [Engines -> {"ok", "fail"}], snapshot : {"written", "oserror"}]

NameLists ==
    {<<>>} \cup {<<a>> : a \in Engines} \cup {<<a, b>> : a \in Engines, b \in Engines}

\* builder.build_all(source_dir, names, output_dir = source_dir,
\* compile_only, policy)
BuildAll(names, policy, compile_only, cc) ==
    LET opts == [HotfixOpts EXCEPT !.policy = policy, !.compile_only = compile_only]
    IN  /\ done = NoOp
        /\ \E b \in {build_all(project, names, opts, cc, now)} :
              /\ project' = b.project
              /\ done' = [op |-> "build_all", names |-> names,
                          compile_only |-> compile_only, snapshot |-> cc.snapshot,
                          raised |-> b.raised, attempts |-> b.attempts,
                          result |-> b.result, failed |-> b.failed]
        /\ UNCHANGED <<linker, hotfix_builds, swaps, calls, worker, wall, vars, manifestVars, toolVars>>

\* ------------------------------------------- the watchdog: CppEngineWorker

_heal_threshold == 3

_heal_cooldown_s == 8

Range(q) == {q[i] : i \in DOMAIN q}

\* the objects of the process during a call, with the link_engine calls,
\* the heal attempts and the engines polled by the call so far
Sys(lk, p, w) ==
    [linker |-> lk, project |-> p, worker |-> w, links |-> <<>>, heals |-> <<>>,
     polls |-> <<>>]

\* what a call meets: io.cc is the toolchain, io.native[e] what the
\* engine's method does once loaded; what the dynamic linker does with a
\* well-formed binary of engine e is project.imports[e], before and after
\* a self-hotfix build
LinkEvent(l, engine_name, via) ==
    [engine |-> engine_name, via |-> via, returned |-> l.ok, error |-> l.error,
     hotfix |-> l.hotfix, raised |-> l.batch.raised, attempts |-> l.batch.attempts,
     retries |-> l.retries]

\* bridge1.link_engine(engine_name), as a step of a call
Link(s, engine_name, via, io) ==
    CHOOSE out \in
      { [s EXCEPT !.linker = l.linker, !.project = l.project,
                  !.links = Append(@, LinkEvent(l, engine_name, via))]
        : l \in {link_engine(s.linker, s.project, engine_name,
                             s.project.imports[engine_name],
                             s.project.imports[engine_name], io.cc, now)} } : TRUE

\* bridge1.invoke_method(engine_name, "get_usage"), as a step of a call
Invoke(s, engine_name, io) ==
    CHOOSE out \in
      { [sys |-> [s EXCEPT !.linker = l.linker, !.project = l.project,
                           !.links = IF l.linked
                                     THEN Append(@, LinkEvent(l, engine_name, "lazy"))
                                     ELSE @],
         returned |-> l.returned]
        : l \in {invoke_method(s.linker, s.project, engine_name,
                               s.project.imports[engine_name],
                               s.project.imports[engine_name],
                               io.cc, now, io.native[engine_name])} } : TRUE

\* faulty variant: an accepted result leaves the streak as it is
Mut_mark_engine_ok_keeps_streak(w, engine_name) == w

_mark_engine_ok(w, engine_name) ==
    [w EXCEPT !._engine_fail_streak = Put(@, engine_name, 0)]

\* faulty variant: the new engine is added and the old one stays
Mut_replace_active_engine_appends(w, old_engine, new_engine) ==
    IF new_engine \notin Range(w.active_engines)
    THEN [w EXCEPT !.active_engines = Append(@, new_engine)]
    ELSE w

_replace_active_engine(w, old_engine, new_engine) ==
    IF old_engine \in Range(w.active_engines)
    THEN [w EXCEPT !.active_engines =
            [i \in DOMAIN @ |-> IF @[i] = old_engine THEN new_engine ELSE @[i]]]
    ELSE IF new_engine \notin Range(w.active_engines)
    THEN [w EXCEPT !.active_engines = Append(@, new_engine)]
    ELSE w

\* faulty variant: the relink is tried whatever the time of the last attempt
Mut_heal_without_cooldown(s, engine_name, streak, t, io) ==
    LET marked == [s EXCEPT
                      !.worker._engine_last_heal_ts = Put(@, engine_name, t),
                      !.heals = Append(@, [engine |-> engine_name, streak |-> streak,
                                           since |-> t - Get(s.worker._engine_last_heal_ts,
                                                             engine_name, 0)])]
    IN  CHOOSE out \in
          { IF l.links[Len(l.links)].returned
            THEN [l EXCEPT !.worker._engine_fail_streak = Put(@, engine_name, 0)]
            ELSE [l EXCEPT !.worker._engine_fail_streak =
                              Put(@, engine_name, _heal_threshold - 1)]
            : l \in {Link(marked, engine_name, "heal", io)} } : TRUE

\* faulty variant: the heal of gpu_nvidia links the fallback without relinking first
Mut_heal_falls_back_first(s, engine_name, streak, t, io) ==
    LET last == Get(s.worker._engine_last_heal_ts, engine_name, 0)
        marked == [s EXCEPT
                      !.worker._engine_last_heal_ts = Put(@, engine_name, t),
                      !.heals = Append(@, [engine |-> engine_name, streak |-> streak,
                                           since |-> t - last])]
        cooled(x) == [x EXCEPT !.worker._engine_fail_streak =
                                   Put(@, engine_name, _heal_threshold - 1)]
        swapped(fb) == _replace_active_engine(fb.worker, "gpu_nvidia", "gpu_others")
    IN  IF t - last < _heal_cooldown_s THEN s
        ELSE IF engine_name = "gpu_nvidia"
        THEN CHOOSE fell \in
               { IF fb.links[Len(fb.links)].returned
                 THEN [fb EXCEPT !.worker =
                         [swapped(fb) EXCEPT !._engine_fail_streak =
                             Put(Put(@, engine_name, 0), "gpu_others", 0)]]
                 ELSE cooled(fb)
                 : fb \in {Link(marked, "gpu_others", "fallback", io)} } : TRUE
        ELSE CHOOSE out \in
               { IF l.links[Len(l.links)].returned
                 THEN [l EXCEPT !.worker._engine_fail_streak = Put(@, engine_name, 0)]
                 ELSE cooled(l)
                 : l \in {Link(marked, engine_name, "heal", io)} } : TRUE

\* faulty variant: a failed heal leaves the streak where the failure put it
Mut_heal_leaves_streak(s, engine_name, streak, t, io) ==
    LET last == Get(s.worker._engine_last_heal_ts, engine_name, 0)
        marked == [s EXCEPT
                      !.worker._engine_last_heal_ts = Put(@, engine_name, t),
                      !.heals = Append(@, [engine |-> engine_name, streak |-> streak,
                                           since |-> t - last])]
        swapped(fb) == _replace_active_engine(fb.worker, "gpu_nvidia", "gpu_others")
    IN  IF t - last < _heal_cooldown_s THEN s
        ELSE CHOOSE out \in
               { IF l.links[Len(l.links)].returned
                 THEN [l EXCEPT !.worker._engine_fail_streak = Put(@, engine_name, 0)]
                 ELSE IF engine_name = "gpu_nvidia"
                 THEN CHOOSE fell \in
                        { IF fb.links[Len(fb.links)].returned
                          THEN [fb EXCEPT !.worker =
                                  [swapped(fb) EXCEPT !._engine_fail_streak =
                                      Put(Put(@, engine_name, 0), "gpu_others", 0)]]
                          ELSE fb
                          : fb \in {Link(l, "gpu_others", "fallback", io)} } : TRUE
                 ELSE l
                 : l \in {Link(marked, engine_name, "heal", io)} } : TRUE

\* CppEngineWorker._try_self_heal_engine at time t
_try_self_heal_engine(s, engine_name, streak, t, io) ==
    LET last == Get(s.worker._engine_last_heal_ts, engine_name, 0)
        marked == [s EXCEPT
                      !.worker._engine_last_heal_ts = Put(@, engine_name, t),
                      !.heals = Append(@, [engine |-> engine_name, streak |-> streak,
                                           since |-> t - last])]
        cooled(x) == [x EXCEPT !.worker._engine_fail_streak =
                                  Put(@, engine_name, _heal_threshold - 1)]
        swapped(fb) == _replace_active_engine(fb.worker, "gpu_nvidia", "gpu_others")
    IN  IF t - last < _heal_cooldown_s THEN s
        ELSE CHOOSE out \in
               { IF l.links[Len(l.links)].returned
                 THEN [l EXCEPT !.worker._engine_fail_streak = Put(@, engine_name, 0)]
                 ELSE IF engine_name = "gpu_nvidia"
                 THEN CHOOSE fell \in
                        { IF fb.links[Len(fb.links)].returned
                          THEN [fb EXCEPT !.worker =
                                  [swapped(fb) EXCEPT !._engine_fail_streak =
                                      Put(Put(@, engine_name, 0), "gpu_others", 0)]]
                          ELSE cooled(fb)
                          : fb \in {Link(l, "gpu_others", "fallback", io)} } : TRUE
                 ELSE cooled(l)
                 : l \in {Link(marked, engine_name, "heal", io)} } : TRUE

\* faulty variant: the heal is asked for only when the streak is at the
\* threshold, and a streak past the threshold is no longer counted
Mut_mark_engine_fail_at_threshold(s, engine_name, t, io) ==
    LET before == Get(s.worker._engine_fail_streak, engine_name, 0)
        streak == IF before > _heal_threshold THEN before ELSE before + 1
        counted == [s EXCEPT !.worker._engine_fail_streak = Put(@, engine_name, streak)]
    IN  IF streak = _heal_threshold
        THEN _try_self_heal_engine(counted, engine_name, streak, t, io)
        ELSE counted

_mark_engine_fail(s, engine_name, t, io) ==
    LET streak == Get(s.worker._engine_fail_streak, engine_name, 0) + 1
        counted == [s EXCEPT !.worker._engine_fail_streak = Put(@, engine_name, streak)]
    IN  IF streak >= _heal_threshold
        THEN _try_self_heal_engine(counted, engine_name, streak, t, io)
        ELSE counted

\* faulty variant: the loop ends at the first engine that returned None
RECURSIVE Mut_poll_ends_at_failure(_, _, _, _)
Mut_poll_ends_at_failure(s, engines, t, io) ==
    IF engines = <<>> THEN s
    ELSE LET engine_name == Head(engines)
             polled(v, x) ==
                 [x EXCEPT !.polls =
                    Append(@, [engine |-> engine_name, returned |-> v.returned,
                               before |-> Get(v.sys.worker._engine_fail_streak,
                                              engine_name, 0),
                               after |-> Get(x.worker._engine_fail_streak,
                                             engine_name, 0)])]
         IN  CHOOSE out \in
               { IF v.returned # "None"
                 THEN Mut_poll_ends_at_failure(
                          polled(v, [v.sys EXCEPT
                                       !.worker = _mark_engine_ok(@, engine_name)]),
                          Tail(engines), t, io)
                 ELSE polled(v, _mark_engine_fail(v.sys, engine_name, t, io))
                 : v \in {Invoke(s, engine_name, io)} } : TRUE

\* the loop of perform_check over the list it started with (the engines
\* followed here all take the last branch: get_usage, then ok or fail)
\* polls keeps, for each engine of the loop: what get_usage returned, the
\* engine's streak when it was invoked and when the loop went on
RECURSIVE poll(_, _, _, _)
poll(s, engines, t, io) ==
    IF engines = <<>> THEN s
    ELSE LET engine_name == Head(engines)
             polled(v, x) ==
                 [x EXCEPT !.polls =
                    Append(@, [engine |-> engine_name, returned |-> v.returned,
                               before |-> Get(v.sys.worker._engine_fail_streak,
                                              engine_name, 0),
                               after |-> Get(x.worker._engine_fail_streak,
                                             engine_name, 0)])]
             classified(v) ==
                 { polled(v, x) : x \in { IF v.returned # "None"
                                          THEN [v.sys EXCEPT
                                                  !.worker = _mark_engine_ok(@, engine_name)]
                                          ELSE _mark_engine_fail(v.sys, engine_name, t, io) } }
         IN  CHOOSE out \in
               { poll(x, Tail(engines), t, io)
                 : x \in UNION { classified(v) : v \in {Invoke(s, engine_name, io)} } } : TRUE

\* CppEngineWorker.perform_check at time t
perform_check(s, t, io) ==
    IF ~s.worker.is_active THEN s ELSE poll(s, s.worker.active_engines, t, io)

\* ----------------------------------- startup: setup_engine_connections

\* the hardware paths auto_discover_hardware looks for
Hardware == [is_nvidia : BOOLEAN, drm_card0 : BOOLEAN]

_engine_binary_exists(p, engine_name) == p.engines[engine_name].fs.target_so.exists

\* CppHandler1.auto_discover_hardware, for the engines followed here
auto_discover_hardware(p, hw) ==
    LET have(e) == _engine_binary_exists(p, e)
        core == IF have("cpu") THEN <<"cpu">> ELSE <<>>
        gpu == IF hw.is_nvidia
               THEN IF have("gpu_nvidia") THEN <<"gpu_nvidia">>
                    ELSE IF hw.drm_card0 /\ have("gpu_others") THEN <<"gpu_others">>
                    ELSE <<>>
               ELSE IF hw.drm_card0 /\ have("gpu_others") THEN <<"gpu_others">>
               ELSE <<>>
    IN  core \o gpu

\* fallback_map of setup_engine_connections
fallback_map(engine) == IF engine = "gpu_nvidia" THEN <<"gpu_others">> ELSE <<>>

\* the loop of setup_engine_connections: link each engine, or its fallback
RECURSIVE setup_loop(_, _, _, _)
setup_loop(s, engines_to_link, active_engines, io) ==
    IF engines_to_link = <<>> THEN [sys |-> s, active_engines |-> active_engines]
    ELSE LET engine == Head(engines_to_link)
             fallbacks == fallback_map(engine)
             others == Tail(engines_to_link)
         IN  CHOOSE out \in
               { IF l.links[Len(l.links)].returned
                 THEN setup_loop(l, others, Append(active_engines, engine), io)
                 ELSE IF fallbacks = <<>> \/ fallbacks[1] \in Range(active_engines)
                 THEN setup_loop(l, others, active_engines, io)
                 ELSE CHOOSE fell \in
                        { IF fb.links[Len(fb.links)].returned
                          THEN setup_loop(fb, others,
                                          Append(active_engines, fallbacks[1]), io)
                          ELSE setup_loop(fb, others, active_engines, io)
                          : fb \in {Link(l, fallbacks[1], "setup", io)} } : TRUE
                 : l \in {Link(s, engine, "setup", io)} } : TRUE

\* setup_engine_connections, then CppHandler2.start(): the engines that
\* linked are handed to setup_monitoring and the worker is made active
setup_engine_connections(s, hw, io) ==
    LET started(r) ==
            [r.sys EXCEPT !.worker.active_engines = r.active_engines,
                          !.worker.is_active = TRUE]
    IN  started(setup_loop(s, auto_discover_hardware(s.project, hw), <<>>, io))

\* ------------------------------ unlock: _try_activate_metric_engine

\* faulty variant: the first candidate is put on the list without a link
Mut_activate_loop_unlinked(s, candidates, io) ==
    IF candidates = <<>> THEN [sys |-> s, returned |-> FALSE]
    ELSE [sys |-> IF Head(candidates) \in Range(s.worker.active_engines) THEN s
                  ELSE [s EXCEPT !.worker.active_engines = Append(@, Head(candidates))],
          returned |-> TRUE]

\* the loop of _try_activate_metric_engine: the first candidate that is
\* loaded, or links, is put on the active list unless it is there
RECURSIVE activate_loop(_, _, _)
activate_loop(s, candidates, io) ==
    IF candidates = <<>> THEN [sys |-> s, returned |-> FALSE]
    ELSE LET engine == Head(candidates)
             added(x) ==
                 [sys |-> IF engine \in Range(x.worker.active_engines) THEN x
                          ELSE [x EXCEPT !.worker.active_engines = Append(@, engine)],
                  returned |-> TRUE]
         IN  IF engine \in DOMAIN s.linker.loaded_engines THEN added(s)
             ELSE CHOOSE out \in
                    { IF l.links[Len(l.links)].returned THEN added(l)
                      ELSE activate_loop(l, Tail(candidates), io)
                      : l \in {Link(s, engine, "unlock", io)} } : TRUE

\* EnginePrivilegedMixin._try_activate_metric_engine(metric), for the
\* engines followed here: "gpu", and a metric without candidates
_try_activate_metric_engine(s, hw, metric, io) ==
    activate_loop(s,
                  IF metric = "gpu"
                  THEN IF hw.is_nvidia /\ _engine_binary_exists(s.project, "gpu_nvidia")
                       THEN <<"gpu_nvidia", "gpu_others">>
                       ELSE <<"gpu_others">>
                  ELSE <<>>,
                  io)

\* -------------------------------------------- linker and watchdog: steps

MaxWall == 20

MaxCalls == 1

\* the time from one run of perform_check to the next, in seconds (the
\* timer's interval is at most 3 s; a timeout comes later while the event
\* loop is busy)
TimerSteps == {4}

\* the toolchain behaves the same for every engine of one self-hotfix build
HotfixToolchains ==
    {cc \in BatchToolchains : \A a, b \in Engines : cc.compiler[a] = cc.compiler[b]}

Inputs(engines, toolchains, natives) ==
    [cc : toolchains, native : [engines -> natives]]

\* what a tick of the watchdog may meet
TickInputs(engines) ==
    Inputs(engines, {cc \in HotfixToolchains : cc.snapshot = "written"}, {"value", "None"})

InitLinker ==
    /\ LoaderIdle /\ ManifestIdle /\ ToolsIdle
    /\ \E kits \in [Engines -> {"built", "foreign"}] :
          /\ kits["cpu"] = "built"
          /\ kits["gpu_others"] = "built"
          /\ \E nvidia \in {"ok", "undefined symbol: _ZN3fooEv"} :
                project = [exists |-> TRUE, engines |-> [e \in Engines |-> Kit(kits[e])],
                           imports |-> [e \in Engines |->
                                          IF e = "gpu_nvidia" THEN nvidia ELSE "ok"]]
    /\ linker = NewLinker
    /\ hotfix_builds = [e \in Engines |-> 0]
    /\ swaps = 0
    /\ calls = 0
    /\ done = NoOp
    /\ worker = NewWorker
    /\ wall = BootTime

\* the self-hotfix builds that the calls of s started, added to the count
Started(s) ==
    [e \in Engines |->
        hotfix_builds[e] +
        Cardinality({i \in DOMAIN s.links :
                        s.links[i].engine = e /\ s.links[i].hotfix = "started"})]

Remember(s, op, returned) ==
    [op |-> op, returned |-> returned, links |-> s.links, heals |-> s.heals,
     polls |-> s.polls, at |-> wall]

\* CppHandler1.link_engine(engine_name)
LinkEngine(engine_name, io) ==
    /\ done = NoOp
    /\ calls < MaxCalls
    /\ calls' = calls + 1
    /\ \E s \in {Link(Sys(linker, project, worker), engine_name, "link_engine", io)} :
          /\ linker' = s.linker
          /\ project' = s.project
          /\ hotfix_builds' = Started(s)
          /\ done' = Remember(s, "link_engine", s.links[1].returned)
    /\ UNCHANGED <<swaps, worker, wall, vars, manifestVars, toolVars>>

\* CppHandler1.invoke_method(engine_name, method_name)
InvokeMethod(engine_name, io) ==
    /\ done = NoOp
    /\ calls < MaxCalls
    /\ calls' = calls + 1
    /\ \E v \in {Invoke(Sys(linker, project, worker), engine_name, io)} :
          /\ linker' = v.sys.linker
          /\ project' = v.sys.project
          /\ hotfix_builds' = Started(v.sys)
          /\ done' = Remember(v.sys, "invoke_method", v.returned) @@
                      [engine |-> engine_name, native |-> io.native[engine_name]]
    /\ UNCHANGED <<swaps, worker, wall, vars, manifestVars, toolVars>>

\* MainWindow.__init__: setup_engine_connections(), then h2.start()
SetupEngineConnections(hw, io) ==
    /\ done = NoOp
    /\ ~worker.is_active
    /\ \E s \in {setup_engine_connections(Sys(linker, project, worker), hw, io)} :
          /\ linker' = s.linker
          /\ project' = s.project
          /\ worker' = s.worker
          /\ hotfix_builds' = Started(s)
          /\ done' = Remember(s, "setup_engine_connections", "")
    /\ UNCHANGED <<swaps, calls, wall, vars, manifestVars, toolVars>>

\* the refresh timer times out d seconds after its last timeout and
\* CppEngineWorker.perform_check() runs
PerformCheck(d, io) ==
    /\ done = NoOp
    /\ worker.is_active
    /\ wall + d <= BootTime + MaxWall
    /\ wall' = wall + d
    /\ \E s \in {perform_check(Sys(linker, project, worker), wall + d, io)} :
          /\ linker' = s.linker
          /\ project' = s.project
          /\ worker' = s.worker
          /\ hotfix_builds' = Started(s)
          /\ done' = [Remember(s, "perform_check", "") EXCEPT !.at = wall + d]
    /\ UNCHANGED <<swaps, calls, vars, manifestVars, toolVars>>

\* the caller goes on
Finished ==
    /\ done # NoOp
    /\ done' = NoOp
    /\ UNCHANGED <<project, linker, hotfix_builds, swaps, calls, worker, wall, vars, manifestVars, toolVars>>

\* an engine's binary is replaced by one brought from another machine
SwapBinary(engine_name) ==
    /\ done = NoOp
    /\ worker.is_active
    /\ swaps < MaxSwaps
    /\ project.engines[engine_name].fs.target_so.exists
    /\ project.engines[engine_name].fs.target_so.bytes # ForeignBytes
    /\ swaps' = swaps + 1
    /\ project' = [project EXCEPT !.engines[engine_name].fs.target_so = File(ForeignBytes, now)]
    /\ UNCHANGED <<linker, hotfix_builds, calls, done, worker, wall, vars, manifestVars, toolVars>>

\* an engine's binary is deleted from the engines directory
RemoveBinary(engine_name) ==
    /\ done = NoOp
    /\ worker.is_active
    /\ swaps < MaxSwaps
    /\ project.engines[engine_name].fs.target_so.exists
    /\ swaps' = swaps + 1
    /\ project' = [project EXCEPT !.engines[engine_name].fs.target_so = NoFile]
    /\ UNCHANGED <<linker, hotfix_builds, calls, done, worker, wall, vars, manifestVars, toolVars>>

\* a library the engine needs is removed from, or put back on, the system
SwapLibrary(engine_name, how) ==
    /\ done = NoOp
    /\ worker.is_active
    /\ swaps < MaxSwaps
    /\ project.imports[engine_name] # how
    /\ swaps' = swaps + 1
    /\ project' = [project EXCEPT !.imports[engine_name] = how]
    /\ UNCHANGED <<linker, hotfix_builds, calls, done, worker, wall, vars, manifestVars, toolVars>>

\* unlock_protected_metrics: _try_activate_metric_engine(metric), once
\* the window is set up
TryActivateMetricEngine(hw, metric, io) ==
    /\ done = NoOp
    /\ worker.is_active
    /\ calls < MaxCalls
    /\ calls' = calls + 1
    /\ \E r \in {_try_activate_metric_engine(Sys(linker, project, worker), hw, metric, io)} :
          /\ linker' = r.sys.linker
          /\ project' = r.sys.project
          /\ worker' = r.sys.worker
          /\ hotfix_builds' = Started(r.sys)
          /\ done' = Remember(r.sys, "_try_activate_metric_engine", r.returned)
    /\ UNCHANGED <<swaps, wall, vars, manifestVars, toolVars>>

NextBuilder ==
    \/ \E names \in {Discover} \cup {Named(l) : l \in NameLists},
          policy \in {"prefer_cache", "build_only"}, compile_only \in BOOLEAN,
          cc \in BatchToolchains :
          BuildAll(names, policy, compile_only, cc)
    \/ Finished

SpecBuilder == InitBuilder /\ [][NextBuilder]_<<vars, manifestVars, linkerVars, toolVars>>

NextLinker ==
    \/ \E e \in Engines : \E io \in TickInputs({e}) : LinkEngine(e, io)
    \/ \E e \in Engines : \E io \in Inputs({e}, HotfixToolchains, NativeCalls) :
          InvokeMethod(e, io)
    \/ \E hw \in Hardware, io \in Inputs(Engines, HotfixToolchains, {"value"}) :
          SetupEngineConnections(hw, io)
    \/ \E d \in TimerSteps, io \in TickInputs(Engines) :
          PerformCheck(d, io)
    \/ Finished
    \/ \E e \in Engines : SwapBinary(e)
    \/ \E e \in Engines : RemoveBinary(e)
    \/ \E e \in Engines, how \in LinkErrors \ {"invalid ELF header"} : SwapLibrary(e, how)

SpecLinker == InitLinker /\ [][NextLinker]_<<vars, manifestVars, linkerVars, toolVars>>

\* --------------------------------------------------- claims on build_all

\* a machine with an NVIDIA card and a DRM card0
NvidiaHost == [is_nvidia |-> TRUE, drm_card0 |-> TRUE]

\* the watchdog's clock seen from the tick: the worker reads the times of
\* the last heal attempts only in `now - last < cooldown`, so a tick d
\* seconds later sees each of them d seconds further back, and what lies a
\* cooldown or more back is as good as a cooldown back
Aged(w, d) ==
    [w EXCEPT !._engine_last_heal_ts =
        [e \in DOMAIN @ |-> IF @[e] - d < wall - _heal_cooldown_s
                            THEN wall - _heal_cooldown_s ELSE @[e] - d]]

\* the refresh timer times out again and again: perform_check() d seconds
\* after the last run, with the clock counted back from this run
TimerTimeout(d, io) ==
    /\ done = NoOp
    /\ worker.is_active
    /\ UNCHANGED <<swaps, calls, wall, vars, manifestVars, toolVars>>
    /\ \E s \in {perform_check(Sys(linker, project, Aged(worker, d)), wall, io)} :
          /\ linker' = s.linker
          /\ project' = s.project
          /\ worker' = s.worker
          /\ hotfix_builds' = Started(s)
          /\ done' = Remember(s, "perform_check", "")

\* the timer of a running application keeps timing out and every call
\* returns; binaries are removed at most MaxSwaps times
\* what a timeout may meet: any toolchain, and each engine's get_usage
\* answering or not
TimerInputs == TickInputs(Engines)

NextTimer ==
    \/ \E io \in {i \in TimerInputs : \A e \in Engines : i.native[e] = "value"} :
          SetupEngineConnections(NvidiaHost, io)
    \/ \E d \in TimerSteps, io \in TimerInputs : TimerTimeout(d, io)
    \/ Finished
    \/ \E e \in Engines : RemoveBinary(e)

SpecTimer ==
    /\ InitLinker
    /\ [][NextTimer]_<<vars, manifestVars, linkerVars, toolVars>>
    /\ WF_<<vars, manifestVars, linkerVars, toolVars>>(\E d \in TimerSteps, io \in TimerInputs : TimerTimeout(d, io))
    /\ WF_<<vars, manifestVars, linkerVars, toolVars>>(Finished)

\* startup, unlock and the watchdog on one machine, while binaries are
\* removed and libraries change
NextUnlock ==
    \/ \E io \in Inputs(Engines, HotfixToolchains, {"value"}) :
          SetupEngineConnections(NvidiaHost, io)
    \/ \E metric \in {"gpu", "cpu_temp"}, io \in TickInputs(Engines) :
          TryActivateMetricEngine(NvidiaHost, metric, io)
    \/ \E d \in TimerSteps, io \in TickInputs(Engines) :
          PerformCheck(d, io)
    \/ Finished
    \/ \E e \in Engines : RemoveBinary(e)
    \/ \E e \in Engines, how \in {"ok", "undefined symbol: _ZN3fooEv"} : SwapLibrary(e, how)

SpecUnlock == InitLinker /\ [][NextUnlock]_<<vars, manifestVars, linkerVars, toolVars>>

AttemptNames(attempts) == [i \in DOMAIN attempts |-> attempts[i].name]

\* the engine's load came back with a path and status, or with a module
Resolved(a) == a.status \in Successes /\ a.returned \in {"path_status", "module"}

\* C17: build_all raises exactly when no names are given and the source
\* directory is missing; otherwise it attempts the named engines, or the
\* discovered ones, one attempt per entry and in order, whatever failed
\* before; its result holds exactly the engines whose attempt resolved
C17_BuildAllAttemptsEachInOrder ==
    done.op = "build_all" =>
        LET engines == IF done.names.given THEN done.names.list
                       ELSE discover_engines(project)
            idx == DOMAIN done.attempts
        IN  /\ done.raised <=> (~done.names.given /\ ~project.exists)
            /\ ~done.raised =>
                 /\ AttemptNames(done.attempts) = engines
                 /\ DOMAIN done.result =
                      {done.attempts[i].name : i \in {j \in idx : Resolved(done.attempts[j])}}
                 /\ done.failed =
                      AttemptNames(SelectSeq(done.attempts, LAMBDA a : ~Resolved(a)))

\* C17, the part that holds: when the toolchain snapshot is written,
\* build_all raises exactly for no names and a missing source directory,
\* attempts each entry in order whatever failed before, and returns exactly
\* the engines that resolved
C17_BuildAllOnceSnapshotWritten ==
    (done.op = "build_all" /\ done.snapshot = "written") =>
        LET engines == IF done.names.given THEN done.names.list
                       ELSE discover_engines(project)
            idx == DOMAIN done.attempts
        IN  /\ done.raised <=> (~done.names.given /\ ~project.exists)
            /\ done.raised => done.attempts = <<>>
            /\ ~done.raised =>
                 /\ AttemptNames(done.attempts) = engines
                 /\ DOMAIN done.result =
                      {done.attempts[i].name : i \in {j \in idx : Resolved(done.attempts[j])}}
                 /\ done.failed =
                      AttemptNames(SelectSeq(done.attempts, LAMBDA a : ~Resolved(a)))

\* ------------------------------------ claims on the linker and watchdog

\* the link_engine calls of the call just made
LinksDone(d) == IF "links" \in DOMAIN d THEN d.links ELSE <<>>

\* the i-th link_engine call of a step met an engine for which a
\* self-hotfix build had been started before, in an earlier step or
\* earlier in this one
HotfixStartedBefore(i) ==
    LET ev == done'.links[i]
    IN  \/ hotfix_builds[ev.engine] >= 1
        \/ \E j \in 1..(i - 1) :
              done'.links[j].engine = ev.engine /\ done'.links[j].hotfix = "started"

C18_Step ==
    (done = NoOp /\ done' # NoOp) =>
        \A i \in DOMAIN LinksDone(done') :
            LET ev == done'.links[i]
            IN  (HotfixStartedBefore(i) /\ _looks_recoverable_link_error(ev.error)) =>
                    /\ ev.hotfix = "refused"
                    /\ ~ev.returned
                    /\ ev.attempts = <<>>
                    /\ hotfix_builds'[ev.engine] = 1

\* C18: over any sequence of startup, link_engine, invoke_method and
\* watchdog ticks, the self-hotfix build is started at most once for each
\* engine, and a recoverable link failure of an engine for which it was
\* started before returns False without a build
C18_HotfixAtMostOncePerEngine ==
    /\ [](\A e \in Engines : hotfix_builds[e] <= 1)
    /\ [][C18_Step]_<<vars, manifestVars, linkerVars, toolVars>>

\* a heal attempt of the watchdog met a recoverable failure of an engine
\* whose self-hotfix build had been started, and no build followed
C18_Witness ==
    /\ done.op = "perform_check"
    /\ \E i \in DOMAIN done.links :
          /\ done.links[i].via = "heal"
          /\ _looks_recoverable_link_error(done.links[i].error)
          /\ done.links[i].hotfix = "refused"
          /\ hotfix_builds[done.links[i].engine] = 1

\* C19 as stated: a self-hotfix build resolves the failing engine only,
\* with compile_only and policy prefer_cache
C19_HotfixBuildsFailingEngineOnly ==
    \A i \in DOMAIN LinksDone(done) :
        LET ev == done.links[i]
        IN  ev.hotfix = "started" =>
                \A k \in DOMAIN ev.attempts :
                    /\ ev.attempts[k].name = ev.engine
                    /\ ev.attempts[k].compile_only
                    /\ ev.attempts[k].policy = "prefer_cache"

\* C19: a self-hotfix build is build_all over the engines directory: unless
\* the toolchain snapshot fails, it resolves every engine that has a source
\* there, in sorted order, each with compile_only and policy prefer_cache
C19_HotfixBuildsEveryEngine ==
    \A i \in DOMAIN LinksDone(done) :
        LET ev == done.links[i]
        IN  ev.hotfix = "started" =>
                IF ev.raised THEN ev.attempts = <<>>
                ELSE /\ AttemptNames(ev.attempts) = discover_engines(project)
                     /\ \A k \in DOMAIN ev.attempts :
                           /\ ev.attempts[k].compile_only
                           /\ ev.attempts[k].policy = "prefer_cache"
                           /\ ev.attempts[k].compiler = "g++"

\* a self-hotfix build started for one engine rebuilt the binary of another
C19_Witness ==
    \E i \in DOMAIN LinksDone(done) :
        LET ev == done.links[i]
        IN  /\ ev.hotfix = "started"
            /\ \E k \in DOMAIN ev.attempts :
                  /\ ev.attempts[k].name # ev.engine
                  /\ ev.attempts[k].status = "rebuilt"

\* the engines for which the tick just made started a heal attempt
Healed(d) == {d.heals[i].engine : i \in DOMAIN d.heals}

\* the heal attempts of a tick made for engine e
HealsOf(d, e) == {i \in DOMAIN d.heals : d.heals[i].engine = e}

\* the polls of a tick that asked for the heal attempt h: the engine
\* returned None and its streak came to the value the attempt was made at
AskedFor(d, h) ==
    {k \in DOMAIN d.polls :
        /\ d.polls[k].engine = d.heals[h].engine
        /\ d.polls[k].returned = "None"
        /\ d.polls[k].before + 1 = d.heals[h].streak}

PollsOf(d, e) == {k \in DOMAIN d.polls : d.polls[k].engine = e}

\* the tick linked gpu_others as the fallback of gpu_nvidia
FallbackLinked(d) == {i \in DOMAIN d.links : d.links[i].via = "fallback" /\ d.links[i].returned}

C20_Step ==
    (done = NoOp /\ done'.op = "perform_check") =>
        /\ \A e \in Engines :
              /\ e \in Healed(done') <=>
                    Get(worker'._engine_last_heal_ts, e, 0) # Get(worker._engine_last_heal_ts, e, 0)
              /\ e \in Healed(done') =>
                    /\ e \in Range(worker.active_engines)
                    /\ \A h \in HealsOf(done', e) :
                          /\ done'.heals[h].streak >= _heal_threshold
                          /\ AskedFor(done', h) # {}
                    /\ Cardinality(PollsOf(done', e)) = 1 =>
                          Get(worker._engine_fail_streak, e, 0) + 1 >= _heal_threshold
                    /\ wall' - Get(worker._engine_last_heal_ts, e, 0) >= _heal_cooldown_s
                    /\ worker'._engine_last_heal_ts[e] = wall'
        /\ \A i \in DOMAIN done'.links :
              \/ done'.links[i].via = "heal" /\ done'.links[i].engine \in Healed(done')
              \/ /\ done'.links[i].via = "fallback"
                 /\ done'.links[i].engine = "gpu_others"
                 /\ i > 1
                 /\ done'.links[i - 1].via = "heal"
                 /\ done'.links[i - 1].engine = "gpu_nvidia"
                 /\ ~done'.links[i - 1].returned
        /\ Len(done'.heals) = Cardinality(Healed(done'))

\* C20: in a tick the watchdog starts a heal attempt for an engine only
\* when the engine's streak reaches the threshold with this failure and the
\* time since the engine's previous heal attempt is at least the cooldown;
\* the recorded time of the last attempt changes at a heal attempt and at
\* no other step, so two attempts for one engine are a cooldown apart; and
\* every link_engine call of a tick belongs to such an attempt (the relink
\* of the engine, then for gpu_nvidia the link of its fallback)
C20_HealOnlyAfterThresholdAndCooldown ==
    /\ [][C20_Step]_<<vars, manifestVars, linkerVars, toolVars>>
    /\ [][done'.op # "perform_check" =>
             worker'._engine_last_heal_ts = worker._engine_last_heal_ts]_<<vars,
                                                          manifestVars, linkerVars>>

\* an engine is healed a second time, one cooldown after the first
C20_Witness ==
    /\ done.op = "perform_check"
    /\ \E i \in DOMAIN done.heals : done.heals[i].since = _heal_cooldown_s

\* ------------------------------------------- claims on the watchdog's ticks

\* the engines polled by the call just made
PollsDone(d) == IF "polls" \in DOMAIN d THEN d.polls ELSE <<>>

Substituted(list) ==
    [i \in DOMAIN list |-> IF list[i] = "gpu_nvidia" THEN "gpu_others" ELSE list[i]]

\* gpu_others has a binary that the dynamic linker accepts
FallbackLinkable ==
    /\ project.engines["gpu_others"].fs.target_so.exists
    /\ import_module(project.engines["gpu_others"].fs.target_so,
                     project.imports["gpu_others"]) = "ok"

\* C21 as stated: when gpu_nvidia returns None for the third time in a row
\* and gpu_others is present and linkable, the tick substitutes gpu_others
\* for gpu_nvidia in the active list and sets both streaks to zero
C21_ThirdNoneSubstitutesFallback ==
    [][(done = NoOp /\ done'.op = "perform_check") =>
          \A i \in DOMAIN PollsDone(done') :
              LET pl == done'.polls[i]
              IN  (/\ pl.engine = "gpu_nvidia"
                   /\ pl.returned = "None"
                   /\ pl.before = _heal_threshold - 1
                   /\ FallbackLinkable) =>
                      /\ worker'.active_engines = Substituted(worker.active_engines)
                      /\ Get(worker'._engine_fail_streak, "gpu_nvidia", 1) = 0
                      /\ Get(worker'._engine_fail_streak, "gpu_others", 1) = 0
      ]_<<vars, manifestVars, linkerVars, toolVars>>

\* the link_engine calls of a tick made for the heal attempt of gpu_nvidia
HealLinks(d) ==
    {i \in DOMAIN d.links : d.links[i].via = "heal" /\ d.links[i].engine = "gpu_nvidia"}

\* the heal attempt of gpu_nvidia whose relink failed and whose link of
\* gpu_others succeeded
FellBack(d) ==
    \E i \in HealLinks(d) :
        /\ ~d.links[i].returned
        /\ i + 1 \in DOMAIN d.links
        /\ d.links[i + 1].via = "fallback"
        /\ d.links[i + 1].returned

C21_Step ==
    (done = NoOp /\ done'.op = "perform_check") =>
        /\ FellBack(done') =>
              /\ worker'.active_engines = Substituted(worker.active_engines)
              /\ "gpu_nvidia" \in Range(worker.active_engines)
              /\ Get(worker'._engine_fail_streak, "gpu_nvidia", 1) = 0
              /\ \/ Get(worker'._engine_fail_streak, "gpu_others", 1) = 0
                 \/ \E j \in PollsOf(done', "gpu_nvidia"), k \in PollsOf(done', "gpu_others") :
                       j < k /\ done'.polls[k].before = 0
        /\ ~FellBack(done') => worker'.active_engines = worker.active_engines
        /\ \A i \in HealLinks(done') :
              done'.links[i].returned =>
                  /\ Get(worker'._engine_fail_streak, "gpu_nvidia", 1) = 0
                  /\ \A j \in DOMAIN done'.links : done'.links[j].via # "fallback"

\* C21, amended: a heal attempt of gpu_nvidia relinks gpu_nvidia first; the
\* tick puts gpu_others in the place of gpu_nvidia in the active list and
\* sets both streaks to zero exactly when that relink failed and the link
\* of gpu_others succeeded; when the relink succeeds gpu_nvidia stays,
\* gpu_others is not linked and the streak of gpu_nvidia is zero
C21_SubstitutesWhenRelinkFails == [][C21_Step]_<<vars, manifestVars, linkerVars, toolVars>>

\* a tick has replaced gpu_nvidia by gpu_others
C21_Witness ==
    /\ done.op = "perform_check"
    /\ FellBack(done)
    /\ "gpu_others" \in Range(worker.active_engines)
    /\ "gpu_nvidia" \notin Range(worker.active_engines)

PolledNames(polls) == [i \in DOMAIN polls |-> polls[i].engine]

C22_Step ==
    (done = NoOp /\ done'.op = "perform_check") =>
        /\ PolledNames(PollsDone(done')) = worker.active_engines
        /\ \A i \in DOMAIN PollsDone(done') :
              LET pl == done'.polls[i]
                  earlier == {j \in PollsOf(done', pl.engine) : j < i}
                  later == {j \in PollsOf(done', pl.engine) : j > i}
                  \* the heal of gpu_nvidia has reset the streak of its fallback
                  reset(js) == /\ pl.engine = "gpu_others"
                               /\ FallbackLinked(done') # {}
                               /\ \E j \in PollsOf(done', "gpu_nvidia") : j \in js
                  asked == {h \in DOMAIN done'.heals : i \in AskedFor(done', h)}
              IN  /\ earlier = {} =>
                        \/ pl.before = Get(worker._engine_fail_streak, pl.engine, 0)
                        \/ reset(1..(i - 1)) /\ pl.before = 0
                  /\ \A j \in earlier :
                        (\A k \in earlier : k <= j) => pl.before = done'.polls[j].after
                  /\ later = {} =>
                        \/ pl.after = Get(worker'._engine_fail_streak, pl.engine, 0)
                        \/ /\ reset((i + 1)..Len(done'.polls))
                           /\ Get(worker'._engine_fail_streak, pl.engine, 1) = 0
                  /\ pl.returned # "None" => pl.after = 0
                  /\ (pl.returned = "None" /\ asked = {}) => pl.after = pl.before + 1
                  /\ pl.returned = "None" =>
                        \/ pl.after = pl.before + 1
                        \/ asked # {} /\ pl.after \in {0, _heal_threshold - 1}
                  /\ (pl.returned = "None" /\ pl.after # pl.before + 1) =>
                        pl.before + 1 >= _heal_threshold

C23_TickPollsEveryActiveEngine ==
    [][(done = NoOp /\ done'.op = "perform_check") =>
          /\ worker.is_active
          /\ PolledNames(done'.polls) = worker.active_engines
          /\ \A i \in DOMAIN done'.polls : done'.polls[i].returned \in {"value", "None"}
          /\ worker'.is_active
      ]_<<vars, manifestVars, linkerVars, toolVars>>

\* a tick in which an engine's heal attempt failed and the engine after
\* it in the list was polled all the same
C23_Witness ==
    /\ done.op = "perform_check"
    /\ \E i \in DOMAIN done.polls :
          /\ done.polls[i].returned = "None"
          /\ HealsOf(done, done.polls[i].engine) # {}
          /\ done.polls[i].after = _heal_threshold - 1
          /\ i + 1 \in DOMAIN done.polls

\* ------------------------------------------------- claims on the linker

C24_Step ==
    (done = NoOp /\ done'.op = "link_engine") =>
        LET ev == done'.links[1]
            e == ev.engine
            so == project.engines[e].fs.target_so
        IN  /\ Len(done'.links) = 1
            /\ done'.returned \in BOOLEAN
            /\ ~so.exists =>
                   /\ done'.returned = FALSE
                   /\ Get(linker'.link_failures, e, "") = "binary not found"
                   /\ ev.error = "" /\ ev.hotfix = "none"
                   /\ project' = project
                   /\ linker'.loaded_engines = linker.loaded_engines
            /\ ev.error # "" =>
                   /\ ev.error \in LinkErrors
                   /\ done'.returned = FALSE => e \in DOMAIN linker'.link_failures
            /\ done'.returned = TRUE =>
                   /\ e \in DOMAIN linker'.loaded_engines
                   /\ e \notin DOMAIN linker'.link_failures

\* C24: link_engine for an engine whose binary is not in the engines
\* directory records "binary not found" for it, returns False, imports and
\* builds nothing; whatever the import raises, recoverable or not, the
\* call returns True or False: False with the failure recorded, True with
\* the engine loaded and no failure recorded
C24_LinkReturnsBoolAndRecordsMissing == [][C24_Step]_<<vars, manifestVars, linkerVars, toolVars>>

\* link_engine was called for an engine whose binary had been deleted
C24_Witness ==
    /\ done.op = "link_engine"
    /\ done.returned = FALSE
    /\ Get(linker.link_failures, done.links[1].engine, "") = "binary not found"

C25_Step ==
    (done = NoOp /\ done'.op = "invoke_method") =>
        LET e == done'.engine
            lazy == /\ e \notin DOMAIN linker.loaded_engines
                    /\ project.engines[e].fs.target_so.exists
        IN  /\ lazy => /\ Len(done'.links) = 1
                       /\ done'.links[1].engine = e
                       /\ done'.links[1].via = "lazy"
            /\ ~lazy => /\ done'.links = <<>>
                        /\ linker' = linker
                        /\ project' = project
            /\ done'.returned \in {"value", "None"}
            /\ done'.returned = "value" <=>
                   (e \in DOMAIN linker'.loaded_engines /\ done'.native = "value")

\* C25: invoke_method links the engine first exactly when it is not loaded
\* and its binary exists; it returns the method's value when the engine is
\* loaded by then and the method returns one, and None in every other
\* case: the engine could not be loaded, has no such method, or the method
\* raised
C25_InvokeLinksLazilyAndReturnsNone == [][C25_Step]_<<vars, manifestVars, linkerVars, toolVars>>

\* the engine was linked by the call and its method raised
C25_Witness ==
    /\ done.op = "invoke_method"
    /\ Len(done.links) = 1
    /\ done.links[1].returned
    /\ done.native = "raises"
    /\ done.returned = "None"

\* ------------------------------------------- clean_binaries and prune_cache
\* A path is the sequence of its names below the directory that holds the
\* project; the disk maps each path that exists to what is there.

Dir(t) == [dir |-> TRUE, size |-> 0, mtime |-> t]

Leaf(n, t) == [dir |-> FALSE, size |-> n, mtime |-> t]

\* ex in path.parents or path == ex
IsUnder(path, ex) == Len(ex) <= Len(path) /\ SubSeq(path, 1, Len(ex)) = ex

Parent(path) == SubSeq(path, 1, Len(path) - 1)

Name(path) == path[Len(path)]

\* the source directory the commands are given, and the directory above it
source_dir == <<"core", "engines">>

\* builder._detect_project_root: the first of source_dir and its parents that
\* holds assets or pyproject.toml, else the parent of source_dir
_detect_project_root(d, src) ==
    LET holds(dir) == dir \o <<"assets">> \in DOMAIN d \/ dir \o <<"pyproject.toml">> \in DOMAIN d
        ups == {n \in 0..Len(src) : holds(SubSeq(src, 1, n))}
    IN  IF ups = {} THEN Parent(src)
        ELSE SubSeq(src, 1, CHOOSE n \in ups : \A m \in ups : m <= n)

\* a faulty cache_base: the store of prebuilt binaries in place of the cache
Mut_cache_base_is_prebuilt_store(project_root) == project_root \o <<"assets", "binaries">>

\* cache_base of clean_binaries and prune_cache when no cache_root is given
cache_base(project_root) == project_root \o <<".binman", "cache">>

\* autobin._default_cache_root: where load keeps the binaries it builds when
\* it is given no output_dir
_default_cache_root(d, src) == _detect_project_root(d, src) \o <<".binman", "cache">>

\* autobin._default_prebuilt_root: the store that load restores from and
\* backs up to
_default_prebuilt_root(d, src) == _detect_project_root(d, src) \o <<"assets", "binaries">>

\* every path the model's disks may hold, in the order a walk of the tree
\* lists them
TreeOrder ==
    << <<".binman">>, <<".binman", "cache">>, <<".binman", "cache", "key">>,
       <<".binman", "cache", "key", "cpu.so">>,
       <<"assets">>,
       <<"build">>, <<"build", "out.log">>,
       <<"core">>, <<"core", "engines">>,
       <<"core", "engines", ".abi_cache">>,
       <<"core", "engines", "__pycache__">>,
       <<"core", "engines", "__pycache__", "m.pyc">>,
       <<"core", "engines", "cpu.cpp">>,
       <<"core", "engines", "cpu.so">>,
       <<"core", "engines", "old.so">> >>

\* fnmatch of the names of TreeOrder against the patterns clean_binaries uses
Matching ==
    [p \in {"*.so", "*.cpp", "*.log", "__pycache__", "*.pyc"} |->
        CASE p = "*.so" -> {"cpu.so", "old.so"}
          [] p = "*.cpp" -> {"cpu.cpp"}
          [] p = "*.log" -> {"out.log"}
          [] p = "__pycache__" -> {"__pycache__"}
          [] p = "*.pyc" -> {"m.pyc"}]

fnmatch(name, pattern) == pattern \in DOMAIN Matching /\ name \in Matching[pattern]

\* Path.glob(pattern): the entries of dir that match, as the walk lists them
glob(d, dir, pattern) ==
    SelectSeq(TreeOrder, LAMBDA p : p \in DOMAIN d /\ Len(p) = Len(dir) + 1
                                    /\ IsUnder(p, dir) /\ fnmatch(Name(p), pattern))

\* Path.rglob(pattern): the same at any depth below dir
rglob(d, dir, pattern) ==
    SelectSeq(TreeOrder, LAMBDA p : p \in DOMAIN d /\ Len(p) > Len(dir)
                                    /\ IsUnder(p, dir) /\ fnmatch(Name(p), pattern))

RECURSIVE SumSizes(_, _)
SumSizes(d, paths) ==
    IF paths = <<>> THEN 0 ELSE d[Head(paths)].size + SumSizes(d, Tail(paths))

\* clean_binaries._path_size: a file's size, or the sizes of the files below a
\* directory
_path_size(d, path) ==
    IF ~d[path].dir THEN d[path].size
    ELSE SumSizes(d, SelectSeq(TreeOrder, LAMBDA p : p \in DOMAIN d /\ IsUnder(p, path)
                                                     /\ ~d[p].dir))

\* shutil.rmtree(path) and Path.unlink(): the path and all below it are gone
rmtree(d, path) == [p \in {q \in DOMAIN d : ~IsUnder(q, path)} |-> d[p]]

\* clean_binaries._engine_base_from_binary: the name up to its first dot
_engine_base_from_binary(name) ==
    CASE name = "cpu.so" -> "cpu" [] name = "old.so" -> "old" [] OTHER -> name

\* Path.stem of the sources of TreeOrder
stem(name) == CASE name = "cpu.cpp" -> "cpu" [] OTHER -> name

None == "None"

CLEAN_PROFILES ==
    [dev |-> [mode |-> "light", remove_cache |-> FALSE, remove_local_outputs |-> TRUE,
              remove_orphans |-> TRUE, remove_pycache |-> FALSE,
              remove_build_artifacts |-> FALSE],
     ci |-> [mode |-> "standard", remove_cache |-> TRUE, remove_local_outputs |-> TRUE,
             remove_orphans |-> TRUE, remove_pycache |-> TRUE,
             remove_build_artifacts |-> TRUE],
     release |-> [mode |-> "deep", remove_cache |-> TRUE, remove_local_outputs |-> TRUE,
                  remove_orphans |-> TRUE, remove_pycache |-> TRUE,
                  remove_build_artifacts |-> TRUE]]

\* an optional flag: {} for None, else the set of its value
Given(flag, otherwise) == IF flag = {} THEN otherwise ELSE CHOOSE b \in flag : TRUE

\* clean_binaries, lines 513-532: the profile's preset replaces mode and
\* flags, then the flags left at None follow the mode
CleanOptions(req) ==
    LET chosen == IF req.profile = None THEN req
                  ELSE LET preset == CLEAN_PROFILES[req.profile]
                       IN  [req EXCEPT !.mode = preset.mode,
                                       !.remove_cache = {preset.remove_cache},
                                       !.remove_local_outputs = preset.remove_local_outputs,
                                       !.remove_orphans = preset.remove_orphans,
                                       !.remove_pycache = {preset.remove_pycache},
                                       !.remove_build_artifacts =
                                           {preset.remove_build_artifacts}]
    IN  [mode |-> chosen.mode,
         remove_cache |-> Given(chosen.remove_cache, chosen.mode \in {"standard", "deep"}),
         remove_local_outputs |-> chosen.remove_local_outputs,
         remove_orphans |-> chosen.remove_orphans,
         remove_pycache |-> Given(chosen.remove_pycache, chosen.mode = "deep"),
         remove_build_artifacts |->
             Given(chosen.remove_build_artifacts, chosen.mode \in {"standard", "deep"}),
         exclude |-> req.exclude]

\* clean_binaries._is_excluded
_is_excluded(path, exclude) == \E ex \in exclude : IsUnder(path, ex)

\* what a run of clean_binaries has done so far
CleanRun(d) == [disk |-> d, removed |-> <<>>, missing |-> <<>>, skipped |-> <<>>, bytes_freed |-> 0]

\* clean_binaries._rm_path
_rm_path(r, path, exclude, dry_run) ==
    IF _is_excluded(path, exclude) THEN [r EXCEPT !.skipped = Append(@, path)]
    ELSE IF path \notin DOMAIN r.disk THEN [r EXCEPT !.missing = Append(@, path)]
    ELSE IF dry_run
         THEN [r EXCEPT !.removed = Append(@, path),
                        !.bytes_freed = @ + _path_size(r.disk, path)]
    ELSE [r EXCEPT !.disk = rmtree(@, path),
                   !.removed = Append(@, path),
                   !.bytes_freed = @ + _path_size(r.disk, path)]

\* for p in <glob>: _rm_path(p); the walk yields a path only while it is there
RECURSIVE rm_each(_, _, _, _)
rm_each(r, paths, exclude, dry_run) ==
    IF paths = <<>> THEN r
    ELSE IF Head(paths) \notin DOMAIN r.disk THEN rm_each(r, Tail(paths), exclude, dry_run)
    ELSE rm_each(_rm_path(r, Head(paths), exclude, dry_run), Tail(paths), exclude, dry_run)

\* for name in names: _rm_path(dir / name)
RECURSIVE rm_named(_, _, _, _, _)
rm_named(r, dir, names, exclude, dry_run) ==
    IF names = <<>> THEN r
    ELSE rm_named(_rm_path(r, dir \o <<Head(names)>>, exclude, dry_run), dir, Tail(names),
                  exclude, dry_run)

\* for pattern in patterns: for p in dir.glob(pattern) or dir.rglob(pattern)
RECURSIVE rm_globs(_, _, _, _, _, _)
rm_globs(r, dir, patterns, deep, exclude, dry_run) ==
    IF patterns = <<>> THEN r
    ELSE rm_globs(rm_each(r, IF deep THEN rglob(r.disk, dir, Head(patterns))
                             ELSE glob(r.disk, dir, Head(patterns)), exclude, dry_run),
                  dir, Tail(patterns), deep, exclude, dry_run)

BinaryPatterns == <<"*.so", "*.pyd", "*.dylib">>

\* lines 597-603: the binaries of the source directory that no <name>.cpp
\* stands for
RECURSIVE rm_orphans(_, _, _, _, _)
rm_orphans(r, src, patterns, exclude, dry_run) ==
    IF patterns = <<>> THEN r
    ELSE LET cpps == glob(r.disk, src, "*.cpp")
             engine_names == {stem(Name(cpps[i])) : i \in DOMAIN cpps}
             found == glob(r.disk, src, Head(patterns))
             orphans == SelectSeq(found, LAMBDA p :
                                      _engine_base_from_binary(Name(p)) \notin engine_names)
         IN  rm_orphans(rm_each(r, orphans, exclude, dry_run), src, Tail(patterns), exclude,
                        dry_run)

\* lines 605-614
rm_build_artifacts(r, root, exclude, dry_run) ==
    _rm_path(rm_globs(rm_globs(rm_named(r, root, <<"build", "dist", ".pytest_cache",
                                                   ".mypy_cache", ".ruff_cache">>,
                                        exclude, dry_run),
                               root, <<"*.egg-info">>, FALSE, exclude, dry_run),
                      root, <<"*.tmp", "*.tmp.*", "*.lock", "*.o", "*.obj", "*.a", "*.la",
                              "*.log">>, TRUE, exclude, dry_run),
             root \o <<"CMakeCache.txt">>, exclude, dry_run)

\* lines 616-621
rm_pycache(r, root, exclude, dry_run) ==
    rm_globs(rm_globs(r, root, <<"__pycache__">>, TRUE, exclude, dry_run),
             root, <<"*.pyc", "*.pyo">>, TRUE, exclude, dry_run)

\* lines 588-590
rm_caches(r, opt, root, src, dry_run) ==
    _rm_path(IF opt.remove_cache
             THEN _rm_path(r, cache_base(root), opt.exclude, dry_run) ELSE r,
             src \o <<".abi_cache">>, opt.exclude, dry_run)

\* lines 592-603
rm_binaries(r, opt, src, dry_run) ==
    CHOOSE out \in
        { IF opt.remove_orphans
          THEN rm_orphans(s, src, BinaryPatterns, opt.exclude, dry_run) ELSE s
          : s \in { IF opt.remove_local_outputs
                    THEN rm_globs(r, src, BinaryPatterns, FALSE, opt.exclude, dry_run)
                    ELSE r } } : TRUE

\* faulty variant: the bytecode caches are cleared whatever the flag says
Mut_rm_leftovers_always_pycache(r, opt, root, dry_run) ==
    CHOOSE out \in
        { rm_pycache(s, root, opt.exclude, dry_run)
          : s \in { IF opt.remove_build_artifacts
                    THEN rm_build_artifacts(r, root, opt.exclude, dry_run) ELSE r } } : TRUE

\* lines 605-621
rm_leftovers(r, opt, root, dry_run) ==
    CHOOSE out \in
        { IF opt.remove_pycache THEN rm_pycache(s, root, opt.exclude, dry_run) ELSE s
          : s \in { IF opt.remove_build_artifacts
                    THEN rm_build_artifacts(r, root, opt.exclude, dry_run) ELSE r } } : TRUE

\* builder.clean_binaries
clean_binaries(d, src, req, dry_run) ==
    IF \/ req.profile # None /\ req.profile \notin DOMAIN CLEAN_PROFILES
       \/ CleanOptions(req).mode \notin {"light", "standard", "deep"}
    THEN CleanRun(d) @@ [raised |-> "BuilderError"]
    ELSE CHOOSE out \in
           { rm_leftovers(s, CleanOptions(req), _detect_project_root(d, src), dry_run)
                 @@ [raised |-> ""]
             : s \in { rm_binaries(rm_caches(CleanRun(d), CleanOptions(req),
                                             _detect_project_root(d, src), src, dry_run),
                                   CleanOptions(req), src, dry_run) } } : TRUE

\* the trees clean_binaries is run on: the sources of the application with
\* or without its binaries, caches and leftovers
MaxCleans == 2

Always == {<<"assets">>, <<"core">>, <<"core", "engines">>}

Optional ==
    {{}, {<<".binman">>, <<".binman", "cache">>},
     {<<".binman">>, <<".binman", "cache">>, <<".binman", "cache", "key">>,
      <<".binman", "cache", "key", "cpu.so">>}}

Leftovers ==
    {{}, {<<"build">>, <<"build", "out.log">>}}

Bytecode ==
    {{}, {<<"core", "engines", "__pycache__">>, <<"core", "engines", "__pycache__", "m.pyc">>}}

Loose ==
    SUBSET {<<"core", "engines", ".abi_cache">>, <<"core", "engines", "cpu.cpp">>,
            <<"core", "engines", "cpu.so">>, <<"core", "engines", "old.so">>}

\* what is at each path of TreeOrder when it exists
Node(path) ==
    CASE Name(path) \in {"cpu.so", "old.so"} -> Leaf(4, 0)
      [] Name(path) = "cpu.cpp" -> Leaf(2, 0)
      [] Name(path) \in {"out.log", "m.pyc"} -> Leaf(1, 0)
      [] OTHER -> Dir(0)

CleanDisks ==
    {[p \in Always \cup a \cup b \cup c \cup e |-> Node(p)] :
        a \in Optional, b \in Leftovers, c \in Bytecode, e \in Loose}

Excludes ==
    {{}, {<<".binman", "cache">>}, {<<".binman", "cache", "key", "cpu.so">>},
     {<<"core", "engines">>}, {<<"build", "out.log">>}}

CleanRequest(profile, mode, local, orphans, exclude) ==
    [cmd |-> "clean", profile |-> profile, mode |-> mode, remove_local_outputs |-> local,
     remove_cache |-> {}, remove_orphans |-> orphans, remove_pycache |-> {},
     remove_build_artifacts |-> {}, exclude |-> exclude]

\* clean with each of the five flags given, nothing excluded
CleanSwitches(cache, local, orphans, artifacts, pycache) ==
    [CleanRequest(None, "light", local, orphans, {}) EXCEPT
        !.remove_cache = {cache}, !.remove_build_artifacts = {artifacts},
        !.remove_pycache = {pycache}]

CleanRequests ==
    {CleanRequest(profile, "standard", TRUE, TRUE, ex) :
        profile \in {"dev", "ci", "release", "nightly"}, ex \in Excludes}
    \cup {CleanRequest(None, mode, local, orphans, ex) :
            mode \in {"light", "standard", "deep", "full"}, local \in BOOLEAN,
            orphans \in BOOLEAN, ex \in Excludes}
    \cup {CleanSwitches(cache, local, orphans, artifacts, pycache) :
            cache \in BOOLEAN, local \in BOOLEAN, orphans \in BOOLEAN,
            artifacts \in BOOLEAN, pycache \in BOOLEAN}

InitClean ==
    /\ LoaderIdle /\ ManifestIdle /\ LinkerIdle
    /\ disk \in CleanDisks
    /\ request \in CleanRequests
    /\ reports = <<>>
    /\ runtime = NoRuntime
    /\ BuildersIdle

\* python -m lxbinman clean, with or without --dry-run
CleanBinaries(dry_run) ==
    /\ request.cmd = "clean"
    /\ Len(reports) < MaxCleans
    /\ \E out \in {clean_binaries(disk, source_dir, request, dry_run)} :
          /\ disk' = out.disk
          /\ reports' = Append(reports, [op |-> "clean", dry_run |-> dry_run,
                                         before |-> disk, after |-> out.disk,
                                         raised |-> out.raised, removed |-> out.removed,
                                         missing |-> out.missing, skipped |-> out.skipped,
                                         bytes_freed |-> out.bytes_freed])
    /\ UNCHANGED <<request, runtime, builders, target, vars, manifestVars, linkerVars>>

NextClean == \E dry_run \in BOOLEAN : CleanBinaries(dry_run)

SpecClean == InitClean /\ [][NextClean]_<<vars, manifestVars, linkerVars, toolVars>>

\* -------------------------------------------------------------- prune_cache
\* Path.iterdir() of a directory: its entries in the order the disk lists them
iterdir(d, dir, order) ==
    SelectSeq(order, LAMBDA p : p \in DOMAIN d /\ Len(p) = Len(dir) + 1 /\ IsUnder(p, dir))

\* list.sort(key=st_mtime, reverse=True): latest first, equal times in the
\* order they had
RECURSIVE sort_latest_first(_, _)
sort_latest_first(d, paths) ==
    IF paths = <<>> THEN <<>>
    ELSE LET rest == sort_latest_first(d, SubSeq(paths, 1, Len(paths) - 1))
             last == paths[Len(paths)]
             ahead == SelectSeq(rest, LAMBDA p : d[p].mtime >= d[last].mtime)
             behind == SelectSeq(rest, LAMBDA p : d[p].mtime < d[last].mtime)
         IN  ahead \o <<last>> \o behind

\* seconds in a day, the 86400.0 of prune_cache; max_age_days is {} for None
Day == 86400

\* a faulty prune_cache loop: one directory too many survives
RECURSIVE Mut_prune_loop_keeps_one_more(_, _, _, _)
Mut_prune_loop_keeps_one_more(r, dirs, idx, req) ==
    IF dirs = <<>> THEN r
    ELSE LET too_many == idx > req.max_versions
             too_old == \E days \in req.max_age_days :
                            req.now - r.disk[Head(dirs)].mtime > days * Day
         IN  Mut_prune_loop_keeps_one_more(
                 IF too_many \/ too_old
                 THEN [r EXCEPT !.removed = Append(@, Head(dirs)),
                                !.disk = IF r.dry_run THEN @ ELSE rmtree(@, Head(dirs))]
                 ELSE [r EXCEPT !.kept = Append(@, Head(dirs))],
                 Tail(dirs), idx + 1, req)

\* prune_cache, lines 670-679: for idx, d in enumerate(dirs)
RECURSIVE prune_loop(_, _, _, _)
prune_loop(r, dirs, idx, req) ==
    IF dirs = <<>> THEN r
    ELSE LET too_many == idx >= req.max_versions
             too_old == \E days \in req.max_age_days :
                            req.now - r.disk[Head(dirs)].mtime > days * Day
         IN  prune_loop(IF too_many \/ too_old
                        THEN [r EXCEPT !.removed = Append(@, Head(dirs)),
                                       !.disk = IF r.dry_run THEN @ ELSE rmtree(@, Head(dirs))]
                        ELSE [r EXCEPT !.kept = Append(@, Head(dirs))],
                        Tail(dirs), idx + 1, req)

\* builder.prune_cache
prune_cache(d, src, req, dry_run, order) ==
    LET base == cache_base(_detect_project_root(d, src))
        start == [disk |-> d, removed |-> <<>>, kept |-> <<>>, dry_run |-> dry_run]
        dirs == SelectSeq(iterdir(d, base, order), LAMBDA p : d[p].dir)
    IN  IF base \notin DOMAIN d THEN start
        ELSE prune_loop(start, sort_latest_first(d, dirs), 0, req)

\* the trees prune_cache is run on: up to three version directories in the
\* fast cache, a file beside them, and version directories in the store of
\* prebuilt binaries
MaxPrunes == 2

CacheKeys == {"py311", "py312", "py313"}

\* the order in which the disk lists the entries of the two roots
PruneOrder ==
    << <<".binman", "cache", "README">>, <<".binman", "cache", "py311">>,
       <<".binman", "cache", "py312">>, <<".binman", "cache", "py313">>,
       <<"assets", "binaries", "py311">>, <<"assets", "binaries", "py312">> >>

PruneDisks(clock) ==
    {[p \in Always |-> Dir(0)]
       @@ [p \in {<<"assets", "binaries">>} \cup {<<"assets", "binaries", k>> : k \in store}
             |-> Dir(clock)]
       @@ [p \in {<<".binman">>, <<".binman", "cache">>} \cap there |-> Dir(clock)]
       @@ [p \in {<<".binman", "cache", "README">>} \cap (there \cap readme) |-> Leaf(1, clock)]
       @@ [p \in {<<".binman", "cache", k>> : k \in IF there = {} THEN {} ELSE DOMAIN ages}
             |-> Dir(clock - ages[Name(p)] * (Day \div 2))] :
        store \in SUBSET {"py311", "py312"},
        there \in {{}, {<<".binman">>, <<".binman", "cache">>, <<".binman", "cache", "README">>}},
        readme \in {{}, {<<".binman", "cache", "README">>}},
        ages \in UNION {[keys -> {0, 2, 4}] : keys \in SUBSET CacheKeys}}

PruneRequests ==
    [cmd : {"prune"}, max_versions : 0 .. 3, max_age_days : {{}, {0}, {1}}, now : {4 * Day}]

InitPrune ==
    /\ LoaderIdle /\ ManifestIdle /\ LinkerIdle
    /\ request \in PruneRequests
    /\ disk \in PruneDisks(request.now)
    /\ reports = <<>>
    /\ runtime = NoRuntime
    /\ BuildersIdle

\* python -m lxbinman prune, with or without --dry-run
PruneCache(dry_run) ==
    /\ request.cmd = "prune"
    /\ Len(reports) < MaxPrunes
    /\ \E out \in {prune_cache(disk, source_dir, request, dry_run, PruneOrder)} :
          /\ disk' = out.disk
          /\ reports' = Append(reports, [op |-> "prune", dry_run |-> dry_run,
                                         before |-> disk, after |-> out.disk,
                                         removed |-> out.removed, kept |-> out.kept])
    /\ UNCHANGED <<request, runtime, builders, target, vars, manifestVars, linkerVars>>

NextPrune == \E dry_run \in BOOLEAN : PruneCache(dry_run)

SpecPrune == InitPrune /\ [][NextPrune]_<<vars, manifestVars, linkerVars, toolVars>>

\* ------------------------------------------------------ manifest.cache_key
\* A text is the sequence of its characters; "e-acute" stands for the one
\* character U+00E9.

\* the characters the model's texts are written with: str.isalnum() holds
\* for letters and digits of any script
Letters == {"a", "b", "c", "i", "l", "n", "o", "p", "s", "x", "y", "L", "e-acute"}

Digits == {"1", "2", "3"}

isalnum(c) == c \in Letters \cup Digits

\* the letters and digits of [A-Za-z0-9]
Ascii == (Letters \ {"e-acute"}) \cup Digits

\* str.lower()
lower(text) == [i \in DOMAIN text |-> IF text[i] = "L" THEN "l" ELSE text[i]]

\* str(n) of the version numbers of the model
str(n) == CASE n = 3 -> <<"3">> [] n = 11 -> <<"1", "1">> [] n = 12 -> <<"1", "2">>

\* manifest.runtime_info() of a process on the given interpreter and
\* platform; SOABI is {} where sysconfig has none
runtime_info_of(rt) ==
    [python_version |-> str(rt.version_info[1]) \o <<".">> \o str(rt.version_info[2]),
     python_soabi |-> IF rt.SOABI = {} THEN <<>> ELSE CHOOSE t \in rt.SOABI : TRUE,
     system |-> lower(rt.system),
     machine |-> lower(rt.machine)]

\* manifest.cache_key on the fingerprint that runtime_info() returned
cache_key(info) ==
    LET raw == <<"p", "y">> \o info.python_version \o <<"-">>
               \o (IF info.python_soabi = <<>> THEN <<"n", "o", "-", "s", "o", "a", "b", "i">>
                   ELSE info.python_soabi)
               \o <<"-">> \o info.system \o <<"-">> \o info.machine
    IN  [i \in DOMAIN raw |->
            IF isalnum(raw[i]) \/ raw[i] \in {"-", "_", "."} THEN raw[i] ELSE "_"]

MaxKeyCalls == 2

MaxText == 2

Texts(chars, n) == UNION {[1 .. k -> chars] : k \in 0 .. n}

\* the interpreters and platforms the key is computed on
Runtimes ==
    [version_info : {<<3, 11>>, <<3, 12>>},
     SOABI : {{}} \cup {{t} : t \in Texts({"c", "-", " "}, MaxText)
                                     \cup {<<"n", "o", "-", "s", "o", "a", "b", "i">>}},
     system : Texts({"l", "L", "-"}, MaxText),
     machine : Texts({"x", "_", " ", "e-acute"}, MaxText - 1)]

InitKey ==
    /\ LoaderIdle /\ ManifestIdle /\ LinkerIdle
    /\ disk = NoDisk /\ request = NoRequest /\ reports = <<>>
    /\ runtime \in Runtimes
    /\ BuildersIdle

\* cache_key() is called, as autobin.load does on every call
CacheKey ==
    /\ runtime # NoRuntime
    /\ Len(reports) < MaxKeyCalls
    /\ reports' = Append(reports, [op |-> "cache_key", info |-> runtime_info_of(runtime),
                                   key |-> cache_key(runtime_info_of(runtime))])
    /\ UNCHANGED <<disk, request, runtime, builders, target, vars, manifestVars, linkerVars>>

NextKey == CacheKey

SpecKey == InitKey /\ [][NextKey]_<<vars, manifestVars, linkerVars, toolVars>>

\* ------------------------------------- claims on clean_binaries and prune
\* the run of the same command on the same tree with nothing excluded
Unexcluded(r) ==
    clean_binaries(r.before, source_dir, [request EXCEPT !.exclude = {}], r.dry_run)

\* C26: after clean finishes, every excluded path that existed before the
\* call still exists with its contents, each path clean would otherwise have
\* removed that equals or lies under an excluded path is reported under
\* skipped, and clean in mode deep with the fast-cache root excluded leaves
\* that root on disk and lists it under skipped.
C26_CleanHonoursExclusions ==
    \A i \in DOMAIN reports :
        reports[i].raised = "" =>
            /\ \A p \in DOMAIN reports[i].before :
                  _is_excluded(p, request.exclude) =>
                      p \in DOMAIN reports[i].after
                      /\ reports[i].after[p] = reports[i].before[p]
            /\ \A p \in Range(Unexcluded(reports[i]).removed) :
                  _is_excluded(p, request.exclude) => p \in Range(reports[i].skipped)
            /\ (/\ CleanOptions(request).mode = "deep"
                /\ <<".binman", "cache">> \in request.exclude
                /\ <<".binman", "cache">> \in DOMAIN reports[i].before)
                  => /\ <<".binman", "cache">> \in DOMAIN reports[i].after
                     /\ <<".binman", "cache">> \in Range(reports[i].skipped)

\* C26, the part that holds: a path that clean hands to _rm_path and that
\* equals or lies under an excluded path is listed under skipped and stays,
\* with all below it, unless a directory above the excluded path is removed.
C26_SkippedPathsSurvive ==
    \A i \in DOMAIN reports :
        reports[i].raised = "" =>
            /\ \A p \in Range(Unexcluded(reports[i]).removed) :
                  _is_excluded(p, request.exclude) => p \in Range(reports[i].skipped)
            /\ \A p \in DOMAIN reports[i].before :
                  (/\ _is_excluded(p, request.exclude)
                   /\ \A q \in Range(reports[i].removed) : ~IsUnder(p, q))
                      => p \in DOMAIN reports[i].after
                         /\ reports[i].after[p] = reports[i].before[p]

\* C27: for the same starting disk and the same arguments, clean with
\* dry_run=true reports exactly the removed list and the bytes_freed total
\* that the real run reports, and it changes nothing on disk.
C27_DryRunReportsWhatTheRealRunDoes ==
    /\ \A i \in DOMAIN reports : reports[i].dry_run => reports[i].after = reports[i].before
    /\ \A i, j \in DOMAIN reports :
          (/\ reports[i].dry_run /\ ~reports[j].dry_run
           /\ reports[i].before = reports[j].before)
              => /\ reports[i].removed = reports[j].removed
                 /\ reports[i].bytes_freed = reports[j].bytes_freed

\* C27, the part that holds: a dry run changes nothing on disk, and it lists
\* under removed every path the real run lists, possibly more than once.
C27_DryRunChangesNothing ==
    /\ \A i \in DOMAIN reports : reports[i].dry_run => reports[i].after = reports[i].before
    /\ \A i, j \in DOMAIN reports :
          (/\ reports[i].dry_run /\ ~reports[j].dry_run
           /\ reports[i].before = reports[j].before)
              => /\ Range(reports[j].removed) \subseteq Range(reports[i].removed)
                 /\ reports[j].bytes_freed <= reports[i].bytes_freed
                 /\ reports[i].missing = reports[j].missing
                 /\ Range(reports[j].skipped) \subseteq Range(reports[i].skipped)

\* the directories directly inside a root
VersionDirs(d, root) == {p \in DOMAIN d : Len(p) = Len(root) + 1 /\ IsUnder(p, root) /\ d[p].dir}

\* the orders of a set of directories with the most recently modified first
LatestFirst(d, dirs) ==
    {q \in [1 .. Cardinality(dirs) -> dirs] :
        /\ \A a, b \in DOMAIN q : a # b => q[a] # q[b]
        /\ \A a, b \in DOMAIN q : a < b => d[q[a]].mtime >= d[q[b]].mtime}

\* age exceeds max_age_days
TooOld(d, p) == \E days \in request.max_age_days : request.now - d[p].mtime > days * Day

\* what the call reported on ranked the directories of this root
Pruned(r, root) ==
    /\ Range(r.removed) \cup Range(r.kept) = VersionDirs(r.before, root)
    /\ Range(r.removed) \cap Range(r.kept) = {}
    /\ Len(r.removed) + Len(r.kept) = Cardinality(VersionDirs(r.before, root))

\* C28: prune removes a version directory exactly when its rank with the
\* most recently modified first is >= max_versions or its age exceeds
\* max_age_days; with max_age_days = None it keeps exactly the min(k, N) most
\* recently modified of N directories; a directory inside the top k that is
\* older than max_age_days is still removed; kept and removed are disjoint
\* and together cover all version directories, and a run that is not a dry
\* run deletes exactly the removed ones.
C28_PruneRemovesByRankOrAge ==
    \A i \in DOMAIN reports :
        \A root \in {_default_cache_root(reports[i].before, source_dir)} :
            /\ Pruned(reports[i], root)
            /\ \E q \in LatestFirst(reports[i].before, VersionDirs(reports[i].before, root)) :
                  \A j \in DOMAIN q :
                      q[j] \in Range(reports[i].removed)
                          <=> (j - 1 >= request.max_versions \/ TooOld(reports[i].before, q[j]))
            /\ request.max_age_days = {} =>
                  /\ Len(reports[i].kept) =
                         IF request.max_versions < Cardinality(VersionDirs(reports[i].before, root))
                         THEN request.max_versions
                         ELSE Cardinality(VersionDirs(reports[i].before, root))
                  /\ \A a \in Range(reports[i].kept), b \in Range(reports[i].removed) :
                        reports[i].before[a].mtime >= reports[i].before[b].mtime
            /\ reports[i].after =
                   IF reports[i].dry_run THEN reports[i].before
                   ELSE [p \in {x \in DOMAIN reports[i].before :
                                   \A gone \in Range(reports[i].removed) : ~IsUnder(x, gone)}
                           |-> reports[i].before[p]]

\* three version directories, max_versions = 2, max_age_days = 1: the run
\* kept the latest and removed the second although it is inside the top two
C28_Witness ==
    \E i \in DOMAIN reports :
        /\ ~reports[i].dry_run
        /\ request.max_versions = 2 /\ request.max_age_days = {1}
        /\ Len(reports[i].kept) = 1 /\ Len(reports[i].removed) = 2
        /\ \E p \in Range(reports[i].removed) :
              /\ TooOld(reports[i].before, p)
              /\ \A b \in Range(reports[i].removed) :
                    reports[i].before[p].mtime >= reports[i].before[b].mtime
        /\ Range(reports[i].removed) \cap DOMAIN reports[i].after = {}

Fingerprints == {runtime_info_of(rt) : rt \in Runtimes}

\* C30: cache_key is a pure function of the runtime fingerprint: equal
\* fingerprints give equal keys, fingerprints differing in any field (runtime
\* version, interface tag, OS family, CPU architecture) give different keys,
\* and the key contains only characters from [A-Za-z0-9_.-].
C30_KeyTellsFingerprintsApart ==
    \A i \in DOMAIN reports :
        /\ \A j \in DOMAIN reports :
              reports[j].info = reports[i].info => reports[j].key = reports[i].key
        /\ \A other \in Fingerprints :
              other # reports[i].info => cache_key(other) # reports[i].key
        /\ \A c \in Range(reports[i].key) : c \in Ascii \cup {"_", ".", "-"}

\* the fingerprints whose fields are written with [A-Za-z0-9_.] only, but
\* for the dashes of a (non-empty) interface tag other than "no-soabi"
Plain(info) ==
    /\ Range(info.python_version) \cup Range(info.system) \cup Range(info.machine)
          \subseteq Ascii \cup {"_", "."}
    /\ Range(info.python_soabi) \subseteq Ascii \cup {"_", ".", "-"}
    /\ info.python_soabi \notin {<<>>, <<"n", "o", "-", "s", "o", "a", "b", "i">>}

\* C30, the part that holds: equal fingerprints give equal keys, every
\* character of a key is a letter or digit of some script or one of "_.-",
\* and the keys of plain fingerprints differ from each other and contain
\* only [A-Za-z0-9_.-].
C30_KeyOfPlainFingerprints ==
    \A i \in DOMAIN reports :
        /\ \A j \in DOMAIN reports :
              reports[j].info = reports[i].info => reports[j].key = reports[i].key
        /\ \A c \in Range(reports[i].key) : isalnum(c) \/ c \in {"_", ".", "-"}
        /\ Plain(reports[i].info) =>
              /\ \A other \in Fingerprints :
                    Plain(other) /\ other # reports[i].info
                        => cache_key(other) # reports[i].key
              /\ \A c \in Range(reports[i].key) : c \in Ascii \cup {"_", ".", "-"}

\* ---------------------------------------- claims on self-repair and heals
\* the build of the event resolved the engine's binary
Produced(ev) ==
    \E k \in DOMAIN ev.attempts : ev.attempts[k].name = ev.engine /\ Resolved(ev.attempts[k])

C31_Step ==
    (done = NoOp /\ done' # NoOp) =>
        \A i \in DOMAIN LinksDone(done') :
            LET ev == done'.links[i]
                marked == MarkersIn(ev.error) \cap RecoverableMarkers # {}
            IN  /\ ev.hotfix = "started" => ev.error # "" /\ marked
                /\ (ev.error = "" \/ ~marked) =>
                       /\ ev.hotfix = "none" /\ ev.attempts = <<>> /\ ev.retries = 0
                       /\ ev.error # "" => ~ev.returned
                /\ ev.retries \in {0, 1}
                /\ ev.retries = 1 => ev.hotfix = "started"
                /\ (ev.hotfix = "started" /\ Produced(ev)) => ev.retries = 1
                /\ (ev.error # "" /\ ev.returned) => ev.retries = 1

\* C31: a self-repair build is started only when loading the engine raised
\* an error whose text contains one of the recoverable markers; a missing
\* binary or any other load error returns False without a build; after a
\* self-repair that produced the binary the link is retried exactly once,
\* and a failure of that retry is returned as False and not retried again.
C31_RepairOnlyForRecoverableErrors ==
    [][C31_Step]_<<vars, manifestVars, linkerVars, toolVars>>

\* a link whose import raised a recoverable error started the build, the
\* build produced the binary, the one retry failed and False was returned
C31_Witness ==
    \E i \in DOMAIN LinksDone(done) :
        /\ done.links[i].hotfix = "started"
        /\ Produced(done.links[i])
        /\ done.links[i].retries = 1
        /\ ~done.links[i].returned

\* the relink that the tick's heal attempt for engine e made
RelinkOf(d, e) == {i \in DOMAIN d.links : d.links[i].via = "heal" /\ d.links[i].engine = e}

\* the heal attempt for e linked the fallback in its place
FellBackFrom(d, e) ==
    \E i \in RelinkOf(d, e) :
        /\ i + 1 \in DOMAIN d.links
        /\ d.links[i + 1].via = "fallback"
        /\ d.links[i + 1].returned

C32_Step ==
    (done = NoOp /\ done'.op = "perform_check") =>
        /\ \A h \in DOMAIN done'.heals :
              LET e == done'.heals[h].engine
              IN  /\ Cardinality(RelinkOf(done', e)) = 1
                  /\ done'.heals[h].streak >= _heal_threshold
                  /\ \A i \in RelinkOf(done', e) :
                        /\ done'.links[i].returned =>
                              /\ \E k \in AskedFor(done', h) : done'.polls[k].after = 0
                              /\ Cardinality(PollsOf(done', e)) = 1 =>
                                    worker'._engine_fail_streak[e] = 0
                              /\ \A k \in DOMAIN worker.active_engines :
                                    worker.active_engines[k] = e =>
                                        worker'.active_engines[k] = e
                              /\ ~FellBackFrom(done', e)
                        /\ (~done'.links[i].returned /\ ~FellBackFrom(done', e)) =>
                              /\ \E k \in AskedFor(done', h) :
                                    done'.polls[k].after = _heal_threshold - 1
                              /\ Cardinality(PollsOf(done', e)) = 1 =>
                                    worker'._engine_fail_streak[e] = _heal_threshold - 1
        /\ \A i \in DOMAIN PollsDone(done') :
              LET pl == done'.polls[i]
                  last == Get(worker._engine_last_heal_ts, pl.engine, 0)
              IN  (pl.before = _heal_threshold - 1 /\ pl.returned = "None") =>
                      /\ wall' - last < _heal_cooldown_s =>
                            /\ HealsOf(done', pl.engine) = {}
                            /\ pl.after = _heal_threshold
                      /\ wall' - last >= _heal_cooldown_s =>
                            HealsOf(done', pl.engine) # {}

\* C32: after a heal attempt the engine's streak has a fixed value: 0 when
\* the relink succeeded (the engine stays where it was in the active list),
\* threshold - 1 when the relink failed and no fallback was linked; from
\* threshold - 1 one further failure reaches the threshold, and the heal
\* it asks for is made only if the cooldown has passed.
C32_StreakAfterHealAttempt == [][C32_Step]_<<vars, manifestVars, linkerVars, toolVars>>

\* the tick after a failed heal: the engine failed again, its streak went
\* from threshold - 1 to the threshold, and the cooldown kept the heal back
C32_Witness ==
    /\ done.op = "perform_check"
    /\ \E i \in DOMAIN done.polls :
          /\ done.polls[i].before = _heal_threshold - 1
          /\ done.polls[i].returned = "None"
          /\ done.polls[i].after = _heal_threshold
          /\ HealsOf(done, done.polls[i].engine) = {}
          /\ done.polls[i].engine \in DOMAIN worker._engine_last_heal_ts
          /\ done.at - worker._engine_last_heal_ts[done.polls[i].engine] < _heal_cooldown_s

C33_Step ==
    (done = NoOp /\ done'.op = "perform_check") =>
        LET old == worker.active_engines
            new == worker'.active_engines
        IN  /\ new # old => FallbackLinked(done') # {}
            /\ \A i \in DOMAIN done'.links :
                  done'.links[i].via = "fallback" =>
                      /\ done'.links[i].engine = "gpu_others"
                      /\ i - 1 \in RelinkOf(done', "gpu_nvidia")
                      /\ ~done'.links[i - 1].returned
            /\ FallbackLinked(done') # {} =>
                  /\ Len(new) = Len(old)
                  /\ \E k \in DOMAIN old : old[k] = "gpu_nvidia"
                  /\ \A k \in DOMAIN old :
                        /\ old[k] = "gpu_nvidia" => new[k] = "gpu_others"
                        /\ old[k] # "gpu_nvidia" => new[k] = old[k]
                  /\ \A k \in DOMAIN new : new[k] # "gpu_nvidia"
                  /\ "gpu_nvidia" \in DOMAIN worker'._engine_fail_streak
                  /\ "gpu_others" \in DOMAIN worker'._engine_fail_streak
                  /\ worker'._engine_fail_streak["gpu_nvidia"] = 0
                  /\ \A k \in PollsOf(done', "gpu_nvidia") : done'.polls[k].after = 0
                  /\ \/ worker'._engine_fail_streak["gpu_others"] = 0
                     \/ \E j \in PollsOf(done', "gpu_nvidia"), k \in PollsOf(done', "gpu_others") :
                           j < k /\ done'.polls[k].before = 0

\* C33: a tick changes the active list only by fallback substitution, and
\* the fallback gpu_others is linked only directly after the relink of
\* gpu_nvidia failed; when that link succeeds gpu_others stands at every
\* position gpu_nvidia held, the list keeps its length and its other
\* entries, gpu_nvidia is no longer in it, and both streaks are 0 (gpu_others,
\* when the tick polls it after the substitution, is polled at streak 0).
C33_FallbackTakesTheOriginalsPlace == [][C33_Step]_<<vars, manifestVars, linkerVars, toolVars>>

\* a tick substituted gpu_others for gpu_nvidia in a list that holds
\* another engine as well
C33_Witness ==
    /\ done.op = "perform_check"
    /\ FallbackLinked(done) # {}
    /\ Len(worker.active_engines) >= 2
    /\ \E k \in DOMAIN worker.active_engines : worker.active_engines[k] = "gpu_others"
    /\ \E k \in DOMAIN worker.active_engines : worker.active_engines[k] \notin {"gpu_others", "gpu_nvidia"}
    /\ worker._engine_fail_streak["gpu_nvidia"] = 0

\* ------------------------------------------- claims on the loaded modules
\* C39 as stated: an engine whose last link failed has no handle in the
\* loaded-module table, so no engine is at the same time recorded as a
\* link failure and loaded
C39_FailedLinkLeavesNoHandle ==
    \A e \in DOMAIN linker.link_failures : e \notin DOMAIN linker.loaded_engines

\* ------------------------------------------------ claims on clean's flags
\* the paths of disk d at or below one of the paths of tops
Below(d, tops) == {p \in DOMAIN d : \E q \in tops : IsUnder(p, q)}

\* the paths each operation of clean is about, on disk d
FastCachePaths(d) == Below(d, {cache_base(_detect_project_root(d, source_dir))})

LocalOutputPaths(d) ==
    Below(d, UNION {Range(glob(d, source_dir, BinaryPatterns[k])) : k \in DOMAIN BinaryPatterns})

OrphanPaths(d) ==
    {p \in LocalOutputPaths(d) :
        source_dir \o <<_engine_base_from_binary(p[Len(source_dir) + 1]) \o ".cpp">> \notin DOMAIN d}

ByproductPaths(d) ==
    LET root == _detect_project_root(d, source_dir)
    IN  Below(d, {root \o <<n>> : n \in {"build", "dist", ".pytest_cache", ".mypy_cache",
                                         ".ruff_cache", "CMakeCache.txt"}}
                 \cup {q \in DOMAIN d :
                          /\ IsUnder(q, root)
                          /\ \E pat \in {"*.tmp", "*.tmp.*", "*.lock", "*.o", "*.obj", "*.a",
                                         "*.la", "*.log"} : fnmatch(Name(q), pat)}
                 \cup {q \in DOMAIN d : Parent(q) = root /\ fnmatch(Name(q), "*.egg-info")})

BytecodePaths(d) ==
    Below(d, {q \in DOMAIN d :
                 /\ IsUnder(q, _detect_project_root(d, source_dir))
                 /\ \E pat \in {"__pycache__", "*.pyc", "*.pyo"} : fnmatch(Name(q), pat)})

\* the paths of the operations that the flags of the request switch on
SwitchedOn(d, opt) ==
    (IF opt.remove_cache THEN FastCachePaths(d) ELSE {})
    \cup (IF opt.remove_local_outputs THEN LocalOutputPaths(d) ELSE {})
    \cup (IF opt.remove_orphans THEN OrphanPaths(d) ELSE {})
    \cup (IF opt.remove_build_artifacts THEN ByproductPaths(d) ELSE {})
    \cup (IF opt.remove_pycache THEN BytecodePaths(d) ELSE {})

\* what a run of clean took from the disk
Gone(r) == DOMAIN r.before \ DOMAIN r.after

\* C36 as stated: clean removes only paths of the operations whose flags
\* are on; with the five flags off it removes nothing
C36_OnlySwitchedOperationsRemove ==
    \A i \in DOMAIN reports :
        reports[i].raised = "" =>
            Gone(reports[i]) \subseteq SwitchedOn(reports[i].before, CleanOptions(request))

\* C36, amended: apart from <source_dir>/.abi_cache, which every clean
\* removes, clean removes only paths of the operations whose flags are on
\* (given, set by the profile, or following the mode); every path left on
\* disk is unchanged, and a dry run or a refused call removes nothing
C36_OnlySwitchedOperationsAndAbiCache ==
    \A i \in DOMAIN reports :
        /\ (reports[i].raised # "" \/ reports[i].dry_run) => reports[i].after = reports[i].before
        /\ reports[i].raised = "" =>
              /\ Gone(reports[i]) \subseteq
                    SwitchedOn(reports[i].before, CleanOptions(request))
                    \cup Below(reports[i].before, {source_dir \o <<".abi_cache">>})
              /\ \A p \in DOMAIN reports[i].after : reports[i].after[p] = reports[i].before[p]

\* a clean with only the bytecode flag on took the bytecode cache and
\* .abi_cache and left the fast cache, the binaries and the build directory
C36_Witness ==
    \E i \in DOMAIN reports :
        /\ reports[i].raised = "" /\ ~reports[i].dry_run
        /\ CleanOptions(request) =
              [mode |-> "light", remove_cache |-> FALSE, remove_local_outputs |-> FALSE,
               remove_orphans |-> FALSE, remove_pycache |-> TRUE,
               remove_build_artifacts |-> FALSE, exclude |-> {}]
        /\ Gone(reports[i]) = {<<"core", "engines", ".abi_cache">>,
                               <<"core", "engines", "__pycache__">>,
                               <<"core", "engines", "__pycache__", "m.pyc">>}
        /\ {<<".binman", "cache", "key", "cpu.so">>, <<"build", "out.log">>,
            <<"core", "engines", "old.so">>, <<"core", "engines", "cpu.so">>}
              \subseteq DOMAIN reports[i].after

\* ------------------------------------------- claims on the store's manifest
\* the hash table of the key-scoped store's manifest, one file for all engines
KeyHashes(p) == Get(read_manifest(p.engines["cpu"].fs.manifest_key), "hashes", EmptyDict)

\* the engines a batch has backed up: load makes the backup after a build
\* and on a cache hit, when the guard is active and save_prebuilt is set
BackedUpIn(d) ==
    {d.attempts[i].name : i \in {j \in DOMAIN d.attempts :
                                    /\ d.attempts[j].save_prebuilt
                                    /\ d.attempts[j].status \in {"rebuilt", "up_to_date"}}}

C35_Step ==
    (done = NoOp /\ done'.op = "build_all") =>
        LET names == {so_name_of(e, TRUE) : e \in BackedUpIn(done')}
            manifest == project'.engines["cpu"].fs.manifest_key
        IN  /\ BackedUpIn(done') = {} =>
                  manifest = project.engines["cpu"].fs.manifest_key
            /\ BackedUpIn(done') # {} =>
                  /\ manifest.kind = "dict"
                  /\ \A k \in FingerprintKeys :
                        k \in DOMAIN manifest.data /\ manifest.data[k] = runtime_info[k]
            /\ \A e \in BackedUpIn(done') :
                  /\ project'.engines[e].fs.prebuilt_key_so.exists
                  /\ project'.engines[e].fs.prebuilt_key_so = project'.engines[e].fs.target_so
                  /\ so_name_of(e, TRUE) \in DOMAIN KeyHashes(project')
                  /\ KeyHashes(project')[so_name_of(e, TRUE)] =
                        _sha256_file(project'.engines[e].fs.prebuilt_key_so.bytes)
            /\ DOMAIN KeyHashes(project') = DOMAIN KeyHashes(project) \cup names
            /\ \A n \in DOMAIN KeyHashes(project) \ names :
                  KeyHashes(project')[n] = KeyHashes(project)[n]
            /\ \A e \in Engines :
                  project'.engines[e].fs.manifest_key = manifest

\* C35: every backup of a batch leaves the key-scoped store's manifest with
\* the fingerprint of the running interpreter and, under the file name of
\* each binary backed up, the content hash of the binary now in the store;
\* the hash entries of all other file names are those from before the batch
C35_BackupUpsertsTheStoresManifest == [][C35_Step]_<<vars, manifestVars, linkerVars, toolVars>>

\* a batch backed up gpu_nvidia and gpu_others into a store whose manifest
\* held the hash of cpu.so from an earlier batch
C35_Witness ==
    /\ done.op = "build_all"
    /\ BackedUpIn(done) = {"gpu_nvidia", "gpu_others"}
    /\ DOMAIN KeyHashes(project) = {"cpu.so", "gpu_nvidia.so", "gpu_others.so"}
    /\ KeyHashes(project)["cpu.so"] = _sha256_file(CompileBytes("v1", "g++"))

\* ------------------------------------------- claims on the active list
\* C37: every engine on the watchdog's active list has a module in the
\* linker's loaded-module table: after startup with or without its
\* fallback, after activation on unlock and after the watchdog's fallback
\* substitution
C37_ActiveEnginesAreLoaded ==
    \A k \in DOMAIN worker.active_engines :
        worker.active_engines[k] \in DOMAIN linker.loaded_engines

\* unlock has put gpu_others on the list next to the engines of startup,
\* after linking it
C37_Witness ==
    /\ done.op = "_try_activate_metric_engine"
    /\ done.returned
    /\ \E i \in DOMAIN done.links : done.links[i].via = "unlock" /\ done.links[i].returned
    /\ worker.active_engines = <<"cpu", "gpu_nvidia", "gpu_others">>

\* C38 as stated: the active list never holds the same engine twice
C38_NoEngineTwice ==
    \A j, k \in DOMAIN worker.active_engines :
        worker.active_engines[j] = worker.active_engines[k] => j = k

\* ------------------------------------------- claims on heals over time
\* the tick just made polled engine e and every poll of it returned None
FailedIn(d, e) == PollsOf(d, e) # {} /\ \A k \in PollsOf(d, e) : d.polls[k].returned = "None"

\* C34: an engine that from some time on stays on the active list and
\* returns None on every tick is healed again and again while the timer
\* keeps timing out: after a failed heal and while its streak is above
\* the threshold, the next attempt comes once the cooldown has passed
\* (<>[]stays => []<>healed, written as []<>(~stays \/ healed))
C34_FailingEngineIsHealedAgainAndAgain ==
    \A e \in Engines :
        []<>(\/ e \notin Range(worker.active_engines)
             \/ done.op = "perform_check" /\ ~FailedIn(done, e)
             \/ done.op = "perform_check" /\ HealsOf(done, e) # {})

\* a heal attempt made one cooldown after a failed one, for an engine whose
\* streak had gone above the threshold in between
C34_Witness ==
    /\ done.op = "perform_check"
    /\ \E h \in DOMAIN done.heals :
          /\ done.heals[h].streak > _heal_threshold
          /\ done.heals[h].since = _heal_cooldown_s
          /\ FailedIn(done, done.heals[h].engine)
          /\ done.heals[h].engine \in Range(worker.active_engines)

\* ------------------------------- concurrent builds of one engine: _build_module

\* the processes that build the same engine into the same <out_so>
MaxBuilders == 2

\* the builds each of them makes
MaxBuilds == 2

\* the writes a compiler needs to put its whole output into the file
MaxWrites == 2

Builders == 1..MaxBuilders

IdleBuilder == [pc |-> "idle", fd |-> {}, written |-> 0, builds |-> 0, last |-> ""]

\* a file just created, or just truncated, by the compiler that b runs
Opened(open) == [wrote |-> [c \in Builders |-> 0], open |-> open]

\* the file holds the complete output of one compile and nothing else, and
\* no compiler has it open any more
Whole(f) ==
    /\ f.open = {}
    /\ \E b \in Builders :
          /\ f.wrote[b] = MaxWrites
          /\ \A c \in Builders \ {b} : f.wrote[c] = 0

\* how a compiler opens the path given with -o: it truncates the file that
\* is there, or unlinks it and creates a new one, or stops before it opens
\* anything
OpenModes == {"truncate", "unlink", "none"}

\* tmp_so = out_so.with_suffix(out_so.suffix + ".tmp"), the same path for
\* every builder; subprocess.run(cmd) starts the compiler
RunCompiler(b, how) ==
    /\ b \in DOMAIN builders
    /\ builders[b].pc = "idle"
    /\ builders[b].builds < MaxBuilds
    /\ UNCHANGED <<disk, request, reports, runtime, vars, manifestVars, linkerVars>>
    /\ IF how = "none"
       THEN /\ builders' = [builders EXCEPT ![b].pc = "compiling", ![b].fd = {},
                                            ![b].written = 0]
            /\ UNCHANGED target
       ELSE IF how = "truncate" /\ target.tmp_so # {}
       THEN /\ builders' = [builders EXCEPT ![b].pc = "compiling",
                                            ![b].fd = target.tmp_so,
                                            ![b].written = 0]
            /\ target' = [target EXCEPT !.inodes =
                            [i \in DOMAIN @ |->
                                IF i \in target.tmp_so
                                THEN Opened(@[i].open \cup {b}) ELSE @[i]]]
       ELSE /\ builders' = [builders EXCEPT ![b].pc = "compiling",
                                            ![b].fd = {Len(target.inodes) + 1},
                                            ![b].written = 0]
            /\ target' = [target EXCEPT !.inodes = Append(@, Opened({b})),
                                        !.tmp_so = {Len(target.inodes) + 1}]

\* the compiler writes the next part of its output into the file it opened
CompilerWrites(b) ==
    /\ b \in DOMAIN builders
    /\ builders[b].pc = "compiling"
    /\ builders[b].fd # {}
    /\ builders[b].written < MaxWrites
    /\ UNCHANGED <<disk, request, reports, runtime, vars, manifestVars, linkerVars>>
    /\ builders' = [builders EXCEPT ![b].written = @ + 1]
    /\ target' = [target EXCEPT !.inodes =
                    [i \in DOMAIN @ |->
                        IF i \in builders[b].fd
                        THEN [@[i] EXCEPT !.wrote[b] = @ + 1] ELSE @[i]]]

\* subprocess.run returns: returncode 0 once the whole output is written,
\* another returncode when the compiler gave up before that
CompilerExits(b, returncode) ==
    /\ b \in DOMAIN builders
    /\ builders[b].pc = "compiling"
    /\ IF returncode = 0
       THEN builders[b].fd # {} /\ builders[b].written = MaxWrites
       ELSE builders[b].written < MaxWrites
    /\ UNCHANGED <<disk, request, reports, runtime, vars, manifestVars, linkerVars>>
    /\ builders' = [builders EXCEPT ![b].pc = IF returncode = 0 THEN "compiled"
                                                               ELSE "failed",
                                    ![b].fd = {}]
    /\ target' = [target EXCEPT !.inodes =
                    [i \in DOMAIN @ |->
                        IF i \in builders[b].fd
                        THEN [@[i] EXCEPT !.open = @ \ {b}] ELSE @[i]]]

\* if result.returncode != 0: tmp_so.unlink(missing_ok=True); raise AutoBinError
FailureCleanup(b) ==
    /\ b \in DOMAIN builders
    /\ builders[b].pc = "failed"
    /\ UNCHANGED <<disk, request, reports, runtime, vars, manifestVars, linkerVars>>
    /\ builders' = [builders EXCEPT ![b].pc = "idle", ![b].builds = @ + 1,
                                    ![b].last = "AutoBinError"]
    /\ target' = [target EXCEPT !.tmp_so = {}]

\* os.replace(tmp_so, out_so): whatever is at tmp_so gets the live path;
\* FileNotFoundError when nothing is there
Replace(b) ==
    /\ b \in DOMAIN builders
    /\ builders[b].pc = "compiled"
    /\ UNCHANGED <<disk, request, reports, runtime, vars, manifestVars, linkerVars>>
    /\ IF target.tmp_so = {}
       THEN /\ builders' = [builders EXCEPT ![b].pc = "idle", ![b].builds = @ + 1,
                                            ![b].last = "FileNotFoundError"]
            /\ UNCHANGED target
       ELSE /\ builders' = [builders EXCEPT ![b].pc = "idle", ![b].builds = @ + 1,
                                            ![b].last = "built"]
            /\ target' = [target EXCEPT !.out_so = target.tmp_so, !.tmp_so = {}]

\* the engine has no binary yet, and every builder is about to build it
InitConcurrent ==
    /\ LoaderIdle /\ ManifestIdle /\ LinkerIdle
    /\ disk = NoDisk /\ request = NoRequest /\ reports = <<>> /\ runtime = NoRuntime
    /\ builders = [b \in Builders |-> IdleBuilder]
    /\ target = NoTarget

NextConcurrent ==
    \/ \E b \in Builders, how \in OpenModes : RunCompiler(b, how)
    \/ \E b \in Builders : CompilerWrites(b)
    \/ \E b \in Builders, returncode \in {0, 1} : CompilerExits(b, returncode)
    \/ \E b \in Builders : FailureCleanup(b)
    \/ \E b \in Builders : Replace(b)

SpecConcurrent == InitConcurrent /\ [][NextConcurrent]_<<vars, manifestVars, linkerVars, toolVars>>

\* ------------------------------------------------ claims on concurrent builds

\* C40: when two builders build the same engine into the same place at the
\* same time, whatever the order of their compile, cleanup and rename steps,
\* the live path <out_so> only ever holds the whole output of one
\* successful compile: never a partly written file, and never a file that
\* a compiler of another builder still has open for writing.
C40_LivePathHoldsOnlyWholeOutput ==
    \A i \in target.out_so : Whole(target.inodes[i])

====
